---- MODULE Spec2Model ----
(***************************************************************************)
(* A model of the History undo/redo framework (History.h, History.cpp) and *)
(* of the showcase host functions that drive it (Showcase.cpp).            *)
(*                                                                         *)
(* The tree of contexts is a nested value: a context holds its vector of   *)
(* records, each record holds its sub-context.  A context is addressed by  *)
(* its path: the vector indices of the records to descend through from the *)
(* root context.  The parent pointer of a sub-context is the context that  *)
(* contains its record, i.e. the path without its last index.              *)
(* Vector index i of the code is element i+1 of the TLA+ sequence.         *)
(***************************************************************************)
EXTENDS Integers, Sequences, FiniteSets, TLC

\* ------------------------------------------------------------------ bounds
\* The host starts no do-function once the id counter could pass MaxId, and
\* no function that could grow its container past MaxObjects.
MaxId == 5
MaxObjects == 5
\* The same two bounds where the gate is switched or two threads run.
MaxIdGate == 2
MaxObjectsGate == 2
\* The records a host that probes the memento store pushes, and the Save and
\* Load calls one run of its do-function or undo-function makes.
MaxIdProbe == 1
MaxProbe == 2
\* The bounds of MaxId and MaxObjects for a host whose nested calls abort.
MaxIdReplay == 4
MaxObjectsReplay == 3
\* The bounds of MaxId and MaxObjects for a host whose calls re-enter.
MaxIdReentry == 3
MaxObjectsReentry == 2

Threads == {1, 2}

\* ------------------------------------------------------- host programs
\* A do-function call is described by its shape: the kind of function, its
\* captured argument and the do-functions its body calls in turn.
NoShape == [k |-> "None", v |-> 0, ch |-> <<>>]
AddSh(v) == [k |-> "Add", v |-> v, ch |-> <<>>]
RemoveSh == [k |-> "Remove", v |-> 0, ch |-> <<>>]
MergeSh(ch) == [k |-> "Merge", v |-> 0, ch |-> ch]
DoomedSh == [k |-> "Doomed", v |-> 0, ch |-> <<>>]
GateSh(v) == [k |-> "Gate", v |-> v, ch |-> <<>>]
\* A do-function that calls Save and Load on its record with keys of its own
\* choice and returns v = 1 (true) or v = 0 (false), as its undo-function does.
ProbeSh(v) == [k |-> "Probe", v |-> v, ch |-> <<>>]
\* A do-function whose body calls Redo() on the root context, the context
\* object its host owns; its undo-function has an empty body.
ReenterSh == [k |-> "Reenter", v |-> 0, ch |-> <<>>]

TopShapes ==
    { AddSh(1), RemoveSh, DoomedSh, GateSh(0), GateSh(1),
      MergeSh(<<AddSh(1), AddSh(2)>>),
      MergeSh(<<AddSh(2), RemoveSh, AddSh(1)>>),
      MergeSh(<<MergeSh(<<AddSh(1), AddSh(2)>>)>>) }

RECURSIVE Cost(_)
Cost(sh) == IF Len(sh.ch) = 0 THEN 1
            ELSE 1 + Cost(sh.ch[1]) + Cost([sh EXCEPT !.ch = Tail(@)]) - 1

\* The value an uninitialised int local holds.
Values == {0, 1, 2}
Uninit == 0 - 1

\* ------------------------------------------------------------ sequences
Front(s) == SubSeq(s, 1, Len(s) - 1)
Last(s) == s[Len(s)]
Min(S) == CHOOSE x \in S : \A y \in S : x <= y

\* ------------------------------------------------------------- data model
NullCtx == <<0 - 1>>

NoContext ==
    [stack |-> <<>>, present |-> 0, isUndoing |-> FALSE, isRedoing |-> FALSE,
     mutex |-> 0]

\* nullptr in a vector slot
NullHistory == [id |-> 0, params |-> NoShape, data |-> {}, sub |-> NoContext]

IsNull(h) == h.id = 0

\* HistoryContext's member initialisers: a vector of one null slot, cursor 0.
EmptyContext ==
    [stack |-> <<NullHistory>>, present |-> 0, isUndoing |-> FALSE,
     isRedoing |-> FALSE, mutex |-> 0]

\* History::History via HistoryWithParams: label and captured arguments are
\* the shape, the id comes from NewID, the sub-context is fresh.
NewHistory(id, sh) == [id |-> id, params |-> sh, data |-> {}, sub |-> EmptyContext]

Size(c) == Len(c.stack)
InRange(c, i) == i >= 0 /\ i < Size(c)
At(c, i) == c.stack[i + 1]

RECURSIVE ValidPath(_, _)
ValidPath(c, p) ==
    IF p = <<>> THEN TRUE
    ELSE /\ Head(p) >= 0
         /\ Head(p) < Len(c.stack)
         /\ ~IsNull(c.stack[Head(p) + 1])
         /\ ValidPath(c.stack[Head(p) + 1].sub, Tail(p))

RECURSIVE GetCtx(_, _)
GetCtx(c, p) == IF p = <<>> THEN c ELSE GetCtx(c.stack[Head(p) + 1].sub, Tail(p))

RECURSIVE SetCtx(_, _, _)
SetCtx(c, p, n) ==
    IF p = <<>> THEN n
    ELSE [c EXCEPT !.stack[Head(p) + 1].sub = SetCtx(@, Tail(p), n)]

\* The record whose sub-context has path p.
GetRec(r, p) == At(GetCtx(r, Front(p)), Last(p))
SetRec(r, p, h) ==
    SetCtx(r, Front(p), [GetCtx(r, Front(p)) EXCEPT !.stack[Last(p) + 1] = h])

\* --------------------------------------------------------- memento keys
UndoSuffix == <<"_", "U", "n", "d", "o">>

\* HISTORY_KEY: variable name, "<-", __FUNCTION__; the undo function's name
\* is the do-function's name followed by _Undo.
HISTORY_KEY(var, fnName, inUndo) ==
    <<var, "<", "-", fnName>> \o (IF inUndo THEN UndoSuffix ELSE <<>>)

\* std::string::find: the first position (from 1) of pat in s, 0 for npos.
Find(s, pat) ==
    LET hits == {i \in 1..(Len(s) - Len(pat) + 1) : SubSeq(s, i, i + Len(pat) - 1) = pat}
    IN IF hits = {} THEN 0 ELSE Min(hits)

\* History::Load's id: key with everything from the first "_Undo" erased.
LoadId(key) ==
    LET it == Find(key, UndoSuffix)
    IN IF it = 0 THEN key ELSE SubSeq(key, 1, it - 1)

\* m_Data is a set of <<key, value>> pairs with one pair per key.
DataCount(data, id) == Cardinality({e \in data : e[1] = id})
DataGet(data, id) == (CHOOSE e \in data : e[1] = id)[2]
DataPut(data, key, val) == {e \in data : e[1] # key} \cup {<<key, val>>}

\* ------------------------------------------------------- context queries
ParentContext(lk, p) ==
    IF lk THEN NullCtx
    ELSE IF p = <<>> THEN NullCtx ELSE Front(p)

RECURSIVE IsUndoing(_, _, _)
IsUndoing(r, lk, p) ==
    IF GetCtx(r, p).isUndoing THEN TRUE
    ELSE IF ParentContext(lk, p) # NullCtx THEN IsUndoing(r, lk, ParentContext(lk, p))
    ELSE FALSE

RECURSIVE IsRedoing(_, _, _)
IsRedoing(r, lk, p) ==
    IF GetCtx(r, p).isRedoing THEN TRUE
    ELSE IF ParentContext(lk, p) # NullCtx THEN IsRedoing(r, lk, ParentContext(lk, p))
    ELSE FALSE

IsUndoingOrRedoing(r, lk, p) == IsUndoing(r, lk, p) \/ IsRedoing(r, lk, p)

\* Present: the slot index returned, or "null" when locked, or "oob" when
\* the cursor is outside the vector.
Present(r, lk, p) ==
    IF lk THEN [null |-> TRUE, oob |-> FALSE, idx |-> 0]
    ELSE LET c == GetCtx(r, p) IN
         IF ~InRange(c, c.present) THEN [null |-> FALSE, oob |-> TRUE, idx |-> c.present]
         ELSE [null |-> IsNull(At(c, c.present)), oob |-> FALSE, idx |-> c.present]

PeekFuture(r, lk, p) ==
    IF lk THEN [null |-> TRUE, idx |-> 0]
    ELSE LET c == GetCtx(r, p) IN
         IF c.present < Size(c) - 1
         THEN [null |-> IsNull(At(c, c.present + 1)), idx |-> c.present + 1]
         ELSE [null |-> TRUE, idx |-> 0]

\* ----------------------------------------------------- library handlers
\* Each handler is an operator from the state it reads to the state it
\* leaves: r the root context, lk the gate (s_Lock), p the path of the context
\* it runs on.  ub is set where the code leaves defined behaviour (an index
\* outside the vector, a null pointer followed, pop_back of an empty vector).

\* The loop of PrePush: while (size != idx) pop_back.
RECURSIVE ClearRedos(_, _)
ClearRedos(stack, idx) ==
    IF Len(stack) = idx THEN [ub |-> FALSE, stack |-> stack]
    ELSE IF Len(stack) = 0 THEN [ub |-> TRUE, stack |-> stack]
    ELSE ClearRedos(Front(stack), idx)

\* PrePush without the loop that clears the redos.
PrePushKeepRedos(c, lk) ==
    IF lk THEN [ub |-> FALSE, c |-> c]
    ELSE [ub |-> FALSE, c |-> [c EXCEPT !.present = @ + 1]]

PrePush(c, lk) ==
    IF lk THEN [ub |-> FALSE, c |-> c]
    ELSE LET idx == c.present + 1
             cl == ClearRedos(c.stack, idx)
         IN [ub |-> cl.ub, c |-> [c EXCEPT !.present = idx, !.stack = cl.stack]]

\* Push without its test of the gate.
PushUngated(r, lk, p, id, sh) ==
    IF IsUndoingOrRedoing(r, FALSE, p) THEN [ub |-> FALSE, root |-> r, eff |-> FALSE]
    ELSE LET c == GetCtx(r, p)
             cl == ClearRedos(c.stack, c.present + 1)
         IN IF cl.ub THEN [ub |-> TRUE, root |-> r, eff |-> FALSE]
            ELSE [ub |-> FALSE, eff |-> TRUE,
                  root |-> SetCtx(r, p, [c EXCEPT !.present = @ + 1,
                                                  !.stack = Append(cl.stack, NewHistory(id, sh))])]

\* Push without its test of the undo and redo flags.
PushInAnyPhase(r, lk, p, id, sh) ==
    IF lk THEN [ub |-> FALSE, root |-> r, eff |-> FALSE]
    ELSE LET c == GetCtx(r, p)
             cl == ClearRedos(c.stack, c.present + 1)
         IN IF cl.ub THEN [ub |-> TRUE, root |-> r, eff |-> FALSE]
            ELSE [ub |-> FALSE, eff |-> TRUE,
                  root |-> SetCtx(r, p, [c EXCEPT !.present = @ + 1,
                                                  !.stack = Append(cl.stack, NewHistory(id, sh))])]

\* HistoryContext::Push: eff tells whether a record was created.
Push(r, lk, p, id, sh) ==
    IF lk THEN [ub |-> FALSE, root |-> r, eff |-> FALSE]
    ELSE IF IsUndoingOrRedoing(r, lk, p) THEN [ub |-> FALSE, root |-> r, eff |-> FALSE]
    ELSE LET pp == PrePush(GetCtx(r, p), lk) IN
         IF pp.ub THEN [ub |-> TRUE, root |-> r, eff |-> FALSE]
         ELSE [ub |-> FALSE, eff |-> TRUE,
               root |-> SetCtx(r, p, [pp.c EXCEPT !.stack = Append(@, NewHistory(id, sh))])]

\* HistoryContext::AbortPush
AbortPush(r, lk, p) ==
    IF lk THEN [ub |-> FALSE, root |-> r, eff |-> FALSE]
    ELSE IF IsUndoingOrRedoing(r, lk, p) THEN [ub |-> FALSE, root |-> r, eff |-> FALSE]
    ELSE LET c == GetCtx(r, p) IN
         IF Size(c) = 0 THEN [ub |-> TRUE, root |-> r, eff |-> FALSE]
         ELSE [ub |-> FALSE, eff |-> TRUE,
               root |-> SetCtx(r, p, [c EXCEPT !.present = @ - 1, !.stack = Front(@)])]

\* Clear that empties the stack and leaves the cursor where it was.
ClearKeepCursor(r, lk, p) ==
    IF lk THEN [root |-> r, eff |-> FALSE, obs |-> <<>>]
    ELSE [root |-> SetCtx(r, p, [GetCtx(r, p) EXCEPT !.stack = <<NullHistory>>]),
          eff |-> TRUE, obs |-> << <<p, GetCtx(r, p).present>> >>]

\* HistoryContext::Clear: obs is the sequence of observer calls it makes.
Clear(r, lk, p) ==
    IF lk THEN [root |-> r, eff |-> FALSE, obs |-> <<>>]
    ELSE [root |-> SetCtx(r, p, [GetCtx(r, p) EXCEPT !.present = 0, !.stack = <<NullHistory>>]),
          eff |-> TRUE, obs |-> << <<p, 0>> >>]

\* Save without its test of the undo and redo flags.
SaveInAnyPhase(r, lk, rp, key, val) ==
    IF lk THEN [root |-> r, ret |-> FALSE]
    ELSE [root |-> SetRec(r, rp, [GetRec(r, rp) EXCEPT !.data = DataPut(@, key, val)]),
          ret |-> TRUE]

\* History::Save on the record whose sub-context has path rp.
Save(r, lk, rp, key, val) ==
    IF lk THEN [root |-> r, ret |-> FALSE]
    ELSE IF IsUndoingOrRedoing(r, lk, rp) THEN [root |-> r, ret |-> FALSE]
    ELSE [root |-> SetRec(r, rp, [GetRec(r, rp) EXCEPT !.data = DataPut(@, key, val)]),
          ret |-> TRUE]

\* Load without its test of the undo and redo flags.
LoadInAnyPhase(r, lk, rp, key, type) ==
    IF lk THEN [ret |-> FALSE, exc |-> FALSE, val |-> Uninit]
    ELSE LET id == LoadId(key)
             data == GetRec(r, rp).data
         IN IF DataCount(data, id) = 0 THEN [ret |-> FALSE, exc |-> FALSE, val |-> Uninit]
            ELSE IF DataGet(data, id).type # type
                 THEN [ret |-> FALSE, exc |-> TRUE, val |-> Uninit]
                 ELSE [ret |-> TRUE, exc |-> FALSE, val |-> DataGet(data, id).val]

\* History::Load<T> on the record whose sub-context has path rp: exc is the
\* std::bad_any_cast any_cast<T> throws when the stored type is not T.
Load(r, lk, rp, key, type) ==
    IF lk THEN [ret |-> FALSE, exc |-> FALSE, val |-> Uninit]
    ELSE IF ~IsUndoingOrRedoing(r, lk, rp) THEN [ret |-> FALSE, exc |-> FALSE, val |-> Uninit]
    ELSE LET id == LoadId(key)
             data == GetRec(r, rp).data
         IN IF DataCount(data, id) = 0 THEN [ret |-> FALSE, exc |-> FALSE, val |-> Uninit]
            ELSE IF DataGet(data, id).type # type
                 THEN [ret |-> FALSE, exc |-> TRUE, val |-> Uninit]
                 ELSE [ret |-> TRUE, exc |-> FALSE, val |-> DataGet(data, id).val]

\* The record HISTORY_SAVE and HISTORY_LOAD address:
\* GetContext()->ParentContext()->Present().  With the gate locked
\* ParentContext and Present return null before reading anything and the call
\* ends in Save or Load returning false.
MementoTarget(r, lk, sc) ==
    IF lk THEN [ub |-> FALSE, null |-> TRUE, rp |-> NullCtx]
    ELSE IF sc = NullCtx THEN [ub |-> TRUE, null |-> TRUE, rp |-> NullCtx]
    ELSE IF ParentContext(lk, sc) = NullCtx THEN [ub |-> TRUE, null |-> TRUE, rp |-> NullCtx]
    ELSE LET pc == ParentContext(lk, sc)
             pr == Present(r, lk, pc)
         IN IF pr.oob \/ pr.null THEN [ub |-> TRUE, null |-> TRUE, rp |-> NullCtx]
            ELSE [ub |-> FALSE, null |-> FALSE, rp |-> Append(pc, pr.idx)]

\* &GetContext()->Present()->m_SubContext, the descent of both controllers.
Descend(r, lk, sc) ==
    LET pr == Present(r, lk, sc) IN
    IF pr.oob \/ pr.null THEN [ub |-> TRUE, ctx |-> sc]
    ELSE [ub |-> FALSE, ctx |-> Append(sc, pr.idx)]

\* HistoryPushController::HistoryPushController
PushControllerCtor(r, lk, sc) ==
    IF lk THEN [ub |-> FALSE, ctx |-> sc, eff |-> FALSE]
    ELSE IF sc = NullCtx THEN [ub |-> TRUE, ctx |-> sc, eff |-> FALSE]
    ELSE IF IsUndoing(r, lk, sc) THEN [ub |-> FALSE, ctx |-> sc, eff |-> FALSE]
    ELSE LET d == Descend(r, lk, sc) IN [ub |-> d.ub, ctx |-> d.ctx, eff |-> ~d.ub]

\* The destructor without the step of the cursor it makes under Redo.
PushControllerDtorNoAdvance(r, lk, sc, active) ==
    LET same == [ub |-> FALSE, root |-> r, ctx |-> sc, active |-> active,
                 eff |-> FALSE, obs |-> <<>>]
    IN
    IF lk \/ ~active THEN same
    ELSE IF sc = NullCtx THEN [same EXCEPT !.ub = TRUE]
    ELSE IF IsUndoing(r, lk, sc) THEN same
    ELSE LET up == ParentContext(lk, sc) IN
         IF up = NullCtx THEN [same EXCEPT !.ub = TRUE, !.ctx = up]
         ELSE [ub |-> FALSE, ctx |-> up, active |-> FALSE, eff |-> TRUE, root |-> r,
               obs |-> IF IsRedoing(r, lk, up) THEN <<>>
                       ELSE << <<up, GetCtx(r, up).present>> >>]

\* The destructor without SetContext(ParentContext()).
PushControllerDtorStay(r, lk, sc, active) ==
    LET same == [ub |-> FALSE, root |-> r, ctx |-> sc, active |-> active,
                 eff |-> FALSE, obs |-> <<>>]
    IN
    IF lk \/ ~active THEN same
    ELSE IF sc = NullCtx THEN [same EXCEPT !.ub = TRUE]
    ELSE IF IsUndoing(r, lk, sc) THEN same
    ELSE [same EXCEPT !.active = FALSE, !.eff = TRUE,
                      !.obs = IF IsRedoing(r, lk, sc) THEN <<>>
                              ELSE << <<sc, GetCtx(r, sc).present>> >>]

\* HistoryPushController::~HistoryPushController
PushControllerDtor(r, lk, sc, active) ==
    LET same == [ub |-> FALSE, root |-> r, ctx |-> sc, active |-> active,
                 eff |-> FALSE, obs |-> <<>>]
    IN
    IF lk THEN same
    ELSE IF ~active THEN same
    ELSE IF sc = NullCtx THEN [same EXCEPT !.ub = TRUE]
    ELSE IF IsUndoing(r, lk, sc) THEN same
    ELSE LET up == ParentContext(lk, sc) IN
         IF up = NullCtx THEN [same EXCEPT !.ub = TRUE, !.ctx = up]
         ELSE LET c == GetCtx(r, up) IN
              IF ParentContext(lk, up) # NullCtx /\ IsRedoing(r, lk, up)
                 /\ c.present < Size(c) - 1
              THEN [ub |-> FALSE, ctx |-> up, active |-> FALSE, eff |-> TRUE, obs |-> <<>>,
                    root |-> SetCtx(r, up, [c EXCEPT !.present = @ + 1])]
              ELSE IF ~IsRedoing(r, lk, up)
              THEN [ub |-> FALSE, ctx |-> up, active |-> FALSE, eff |-> TRUE, root |-> r,
                    obs |-> << <<up, c.present>> >>]
              ELSE [ub |-> FALSE, ctx |-> up, active |-> FALSE, eff |-> TRUE, root |-> r,
                    obs |-> <<>>]

\* A pop controller whose constructor leaves the active context alone.
PopControllerCtorStay(r, lk, sc) == [ub |-> FALSE, ctx |-> sc, eff |-> FALSE]

\* HistoryPopController::HistoryPopController
PopControllerCtor(r, lk, sc) ==
    IF lk THEN [ub |-> FALSE, ctx |-> sc, eff |-> FALSE]
    ELSE IF sc = NullCtx THEN [ub |-> TRUE, ctx |-> sc, eff |-> FALSE]
    ELSE LET d == Descend(r, lk, sc) IN [ub |-> d.ub, ctx |-> d.ctx, eff |-> ~d.ub]

\* The destructor with its cursor test > 0 in place of > 1.
PopControllerDtorToZero(r, lk, sc) ==
    IF lk THEN [ub |-> FALSE, root |-> r, ctx |-> sc, eff |-> FALSE]
    ELSE IF sc = NullCtx THEN [ub |-> TRUE, root |-> r, ctx |-> sc, eff |-> FALSE]
    ELSE LET up == ParentContext(lk, sc) IN
         IF up = NullCtx THEN [ub |-> TRUE, root |-> r, ctx |-> up, eff |-> FALSE]
         ELSE LET c == GetCtx(r, up) IN
              IF ParentContext(lk, up) # NullCtx /\ c.present > 0
              THEN [ub |-> FALSE, ctx |-> up, eff |-> TRUE,
                    root |-> SetCtx(r, up, [c EXCEPT !.present = @ - 1])]
              ELSE [ub |-> FALSE, ctx |-> up, eff |-> TRUE, root |-> r]

\* The destructor without the step back of the cursor.
PopControllerDtorNoRetreat(r, lk, sc) ==
    IF lk THEN [ub |-> FALSE, root |-> r, ctx |-> sc, eff |-> FALSE]
    ELSE IF sc = NullCtx THEN [ub |-> TRUE, root |-> r, ctx |-> sc, eff |-> FALSE]
    ELSE LET up == ParentContext(lk, sc) IN
         IF up = NullCtx THEN [ub |-> TRUE, root |-> r, ctx |-> up, eff |-> FALSE]
         ELSE [ub |-> FALSE, ctx |-> up, eff |-> TRUE, root |-> r]

\* The destructor without its test that the context ascended to has a parent.
PopControllerDtorAtRoot(r, lk, sc) ==
    IF lk THEN [ub |-> FALSE, root |-> r, ctx |-> sc, eff |-> FALSE]
    ELSE IF sc = NullCtx THEN [ub |-> TRUE, root |-> r, ctx |-> sc, eff |-> FALSE]
    ELSE LET up == ParentContext(lk, sc) IN
         IF up = NullCtx THEN [ub |-> TRUE, root |-> r, ctx |-> up, eff |-> FALSE]
         ELSE LET c == GetCtx(r, up) IN
              IF c.present > 1
              THEN [ub |-> FALSE, ctx |-> up, eff |-> TRUE,
                    root |-> SetCtx(r, up, [c EXCEPT !.present = @ - 1])]
              ELSE [ub |-> FALSE, ctx |-> up, eff |-> TRUE, root |-> r]

\* HistoryPopController::~HistoryPopController
PopControllerDtor(r, lk, sc) ==
    IF lk THEN [ub |-> FALSE, root |-> r, ctx |-> sc, eff |-> FALSE]
    ELSE IF sc = NullCtx THEN [ub |-> TRUE, root |-> r, ctx |-> sc, eff |-> FALSE]
    ELSE LET up == ParentContext(lk, sc) IN
         IF up = NullCtx THEN [ub |-> TRUE, root |-> r, ctx |-> up, eff |-> FALSE]
         ELSE LET c == GetCtx(r, up) IN
              IF ParentContext(lk, up) # NullCtx /\ c.present > 1
              THEN [ub |-> FALSE, ctx |-> up, eff |-> TRUE,
                    root |-> SetCtx(r, up, [c EXCEPT !.present = @ - 1])]
              ELSE [ub |-> FALSE, ctx |-> up, eff |-> TRUE, root |-> r]

\* ------------------------------------------------------------------ state
VARIABLES
    root,       \* the host's HistoryContext (ManagerBase::context) and all below it
    s_Context,  \* History::s_Context, a path, NullCtx for nullptr
    s_Lock,     \* History::s_Lock
    nextId,     \* the static id of History::NewID
    objects,    \* the host's container (the managers' objects)
    frames,     \* per thread, its call stack of library and host functions
    ub,         \* "none", or why the run left defined behaviour
    ev,         \* the latest library call: what it was and what it returned
    obsLog,     \* the m_OnStackChanged calls since the latest top-level call
    cur,        \* the latest top-level call and the state it started from
    snap        \* the state kept when an Undo follows a run of do-functions

vars == <<root, s_Context, s_Lock, nextId, objects, frames, ub, ev, obsLog, cur, snap>>

NewFrame(fn, arg, pc, i) ==
    [fn |-> fn, arg |-> arg, pc |-> pc, i |-> i, active |-> TRUE, ok |-> FALSE,
     h |-> Uninit, ctx |-> NullCtx, ret |-> TRUE, was |-> NullCtx]

\* What a Save or Load call was given: key, type and value (0 for a Load), and
\* whether any_cast threw.
NoMemento == [key |-> <<>>, type |-> "none", val |-> 0, exc |-> FALSE]

Event(op, t, ret, eff, p) ==
    [op |-> op, t |-> t, ret |-> ret, eff |-> eff, lock |-> s_Lock, ctx |-> p,
     m |-> NoMemento,
     pre |-> IF p = NullCtx THEN 0 ELSE GetCtx(root, p).present,
     size |-> IF p = NullCtx THEN 0 ELSE Size(GetCtx(root, p))]

NoEvent ==
    [op |-> "None", t |-> 0, ret |-> FALSE, eff |-> FALSE, lock |-> FALSE,
     ctx |-> NullCtx, m |-> NoMemento, pre |-> 0, size |-> 0]

TopCall(op, sh) ==
    [op |-> op, sh |-> sh, ctx |-> s_Context, lock |-> s_Lock, done |-> FALSE,
     ret |-> FALSE, rec |-> NullHistory,
     present |-> IF s_Context = NullCtx THEN 0 ELSE GetCtx(root, s_Context).present,
     size |-> IF s_Context = NullCtx THEN 0 ELSE Size(GetCtx(root, s_Context))]

Init ==
    /\ root = EmptyContext
    /\ s_Context = <<>>                \* ManagerBase::ManagerBase: SetContext(&context)
    /\ s_Lock = FALSE
    /\ nextId = 0
    /\ objects = <<>>
    /\ frames = [t \in Threads |-> <<>>]
    /\ ub = "none"
    /\ ev = NoEvent
    /\ obsLog = <<>>
    /\ cur = TopCall("None", NoShape)
    /\ snap = [phase |-> "S", objects |-> <<>>, root |-> EmptyContext]

Idle(t) == frames[t] = <<>>
Top(t) == Last(frames[t])
AtPc(t, fn, pc) == /\ ub = "none"
                   /\ frames[t] # <<>>
                   /\ Top(t).fn = fn
                   /\ Top(t).pc = pc

\* The call stack after the top frame became f.
Step(t, f) == [frames EXCEPT ![t] = Append(Front(@), f)]
\* ... after the top frame became f and called callee.
Call(t, f, callee) == [frames EXCEPT ![t] = Append(Append(Front(@), f), callee)]
\* ... after the top frame returned v to its caller.
Return(t, v) ==
    [frames EXCEPT ![t] =
        IF Len(@) = 1 THEN <<>>
        ELSE Append(SubSeq(@, 1, Len(@) - 2), [@[Len(@) - 1] EXCEPT !.ok = v])]

\* cur after the top frame of t returned v, the gate then being lk.
CurReturn(t, v, lk) ==
    IF Len(frames[t]) = 1
    THEN [cur EXCEPT !.done = TRUE, !.ret = v, !.lock = @ \/ lk]
    ELSE [cur EXCEPT !.lock = @ \/ lk]

Crash(why) ==
    /\ ub' = why
    /\ UNCHANGED <<root, s_Context, s_Lock, nextId, objects, frames, ev, obsLog, cur, snap>>

SnapOther == [phase |-> "X", objects |-> <<>>, root |-> EmptyContext]
\* AbortPush called with no push in progress has removed a record whose change
\* the host's data still carries: until Clear, snap stays here.
SnapStray == [phase |-> "B", objects |-> <<>>, root |-> EmptyContext]
SnapNext(s) == IF snap.phase = "B" THEN snap ELSE s

\* ----------------------------------------------------- top-level calls
\* The host calls a do-function (Showcase.cpp: mgr.AddNewObject() ...).
CallDo(t, sh) ==
    /\ ub = "none"
    /\ Idle(t)
    /\ frames' = [frames EXCEPT ![t] = <<NewFrame("Do", sh, "push", 1)>>]
    /\ cur' = TopCall("Do", sh)
    /\ obsLog' = <<>>
    /\ snap' = SnapNext(IF ~s_Lock /\ sh.k # "Gate" /\ \A u \in Threads : Idle(u)
                        THEN [phase |-> "S", objects |-> <<>>, root |-> EmptyContext]
                        ELSE SnapOther)
    /\ UNCHANGED <<root, s_Context, s_Lock, nextId, objects, ub, ev>>

\* History::GetContext()->Undo(): the gate test that opens Undo.
CallUndo(t) ==
    /\ ub = "none"
    /\ Idle(t)
    /\ obsLog' = <<>>
    /\ IF s_Lock
       THEN /\ ev' = Event("Undo", t, FALSE, FALSE, s_Context)
            /\ cur' = [TopCall("Undo", NoShape) EXCEPT !.done = TRUE]
            /\ snap' = SnapNext(SnapOther)
            /\ UNCHANGED <<root, s_Context, s_Lock, nextId, objects, frames, ub>>
       ELSE IF s_Context = NullCtx
       THEN /\ ub' = "null context"
            /\ UNCHANGED <<root, s_Context, s_Lock, nextId, objects, frames, ev, cur, snap>>
       ELSE /\ frames' = [frames EXCEPT ![t] =
                            <<[NewFrame("Undo", NoShape, "enter", 1) EXCEPT !.ctx = s_Context]>>]
            /\ ev' = Event("UndoCall", t, FALSE, FALSE, s_Context)
            /\ cur' = TopCall("Undo", NoShape)
            /\ snap' = SnapNext(IF snap.phase = "S" /\ \A u \in Threads : Idle(u)
                                THEN [phase |-> "U", objects |-> objects, root |-> root]
                                ELSE SnapOther)
            /\ UNCHANGED <<root, s_Context, s_Lock, nextId, objects, ub>>

\* History::GetContext()->Redo(): the gate test that opens Redo.
CallRedo(t) ==
    /\ ub = "none"
    /\ Idle(t)
    /\ obsLog' = <<>>
    /\ IF s_Lock
       THEN /\ ev' = Event("Redo", t, FALSE, FALSE, s_Context)
            /\ cur' = [TopCall("Redo", NoShape) EXCEPT !.done = TRUE]
            /\ snap' = SnapNext(SnapOther)
            /\ UNCHANGED <<root, s_Context, s_Lock, nextId, objects, frames, ub>>
       ELSE IF s_Context = NullCtx
       THEN /\ ub' = "null context"
            /\ UNCHANGED <<root, s_Context, s_Lock, nextId, objects, frames, ev, cur, snap>>
       ELSE /\ frames' = [frames EXCEPT ![t] =
                            <<[NewFrame("Redo", NoShape, "enter", 1) EXCEPT !.ctx = s_Context]>>]
            /\ ev' = Event("RedoCall", t, FALSE, FALSE, s_Context)
            /\ cur' = TopCall("Redo", NoShape)
            /\ snap' = SnapNext(IF snap.phase = "U" /\ \A u \in Threads : Idle(u)
                                THEN [snap EXCEPT !.phase = "UR"]
                                ELSE SnapOther)
            /\ UNCHANGED <<root, s_Context, s_Lock, nextId, objects, ub>>

\* History::GetContext()->Clear()
CallClear(t) ==
    /\ ub = "none"
    /\ Idle(t)
    /\ IF ~s_Lock /\ s_Context = NullCtx
       THEN Crash("null context")
       ELSE LET res == IF s_Lock THEN [root |-> root, eff |-> FALSE, obs |-> <<>>]
                       ELSE Clear(root, s_Lock, s_Context)
            IN /\ root' = res.root
               /\ obsLog' = res.obs
               /\ ev' = Event("Clear", t, res.eff, res.eff, s_Context)
               /\ cur' = [TopCall("Clear", NoShape) EXCEPT !.done = TRUE]
               /\ snap' = IF res.eff THEN SnapOther ELSE SnapNext(SnapOther)
               /\ UNCHANGED <<s_Context, s_Lock, nextId, objects, frames, ub>>

\* History::GetContext()->AbortPush() with no push in progress.
CallAbortPush(t) ==
    /\ ub = "none"
    /\ Idle(t)
    /\ IF ~s_Lock /\ s_Context = NullCtx
       THEN Crash("null context")
       ELSE LET res == IF s_Lock THEN [ub |-> FALSE, root |-> root, eff |-> FALSE]
                       ELSE AbortPush(root, s_Lock, s_Context)
            IN IF res.ub THEN Crash("pop_back of an empty vector")
               ELSE /\ root' = res.root
                    /\ obsLog' = <<>>
                    /\ ev' = Event("AbortPush", t, res.eff, res.eff, s_Context)
                    /\ cur' = [TopCall("AbortPush", NoShape) EXCEPT !.done = TRUE]
                    /\ snap' = IF res.eff THEN SnapStray ELSE SnapNext(SnapOther)
                    /\ UNCHANGED <<s_Context, s_Lock, nextId, objects, frames, ub>>

\* History::Disable
Disable(t) ==
    /\ ub = "none"
    /\ Idle(t)
    /\ s_Lock' = TRUE
    /\ ev' = Event("Disable", t, TRUE, TRUE, NullCtx)
    /\ IF \A u \in Threads : Idle(u)
       THEN /\ cur' = [TopCall("Disable", NoShape) EXCEPT !.done = TRUE, !.lock = TRUE]
            /\ obsLog' = <<>>
       ELSE /\ cur' = [cur EXCEPT !.lock = TRUE]
            /\ obsLog' = obsLog
    /\ snap' = SnapNext(SnapOther)
    /\ UNCHANGED <<root, s_Context, nextId, objects, frames, ub>>

\* History::Enable
Enable(t) ==
    /\ ub = "none"
    /\ Idle(t)
    /\ s_Lock' = FALSE
    /\ ev' = Event("Enable", t, TRUE, TRUE, NullCtx)
    /\ IF \A u \in Threads : Idle(u)
       THEN /\ cur' = [TopCall("Enable", NoShape) EXCEPT !.done = TRUE]
            /\ obsLog' = <<>>
       ELSE UNCHANGED <<cur, obsLog>>
    /\ snap' = SnapNext(SnapOther)
    /\ UNCHANGED <<root, s_Context, nextId, objects, frames, ub>>

\* -------------------------------------------- HistoryContext::Undo, Redo
\* std::scoped_lock with nothing locking at all.
TryLockAlways(c) == TRUE

\* std::scoped_lock<std::mutex> lock(m_Mutex): the call goes on once no call
\* holds the mutex of c.
TryLock(c) == c.mutex = 0

\* Undo with no test of the cursor.
UndoBoundaryNever(c) == FALSE

\* if (!m_PresentHistoryIdx) return false;
UndoBoundary(c) == c.present = 0

\* if (m_PresentHistoryIdx == m_HistoryStack.size() - 1) return false;
RedoBoundary(c) == c.present = Size(c) - 1

\* A closure call that reports success whatever the function returned.
CallResultTrue(f) == TRUE

\* HistoryWithParams::Call, return std::apply(func, params): the closure's
\* result is what the function invoked in the frame above f returned to f.
CallResult(f) == f.ok

\* Undo from the mutex on: the call waits while the mutex is held; with the
\* cursor at 0 it returns false, otherwise it sets the flag and invokes the
\* record's undo closure.
UndoEnter(t) ==
    /\ AtPc(t, "Undo", "enter")
    /\ LET f == Top(t)
           c == GetCtx(root, f.ctx)
       IN /\ TryLock(c)
          /\ IF UndoBoundary(c)
             THEN /\ frames' = Return(t, FALSE)
                  /\ ev' = Event("Undo", t, FALSE, FALSE, f.ctx)
                  /\ cur' = CurReturn(t, FALSE, s_Lock)
                  /\ UNCHANGED <<root, s_Context, s_Lock, nextId, objects, ub, obsLog, snap>>
             ELSE IF ~InRange(c, c.present) THEN Crash("index outside the vector")
             ELSE IF IsNull(At(c, c.present)) THEN Crash("null record")
             ELSE /\ root' = SetCtx(root, f.ctx, [c EXCEPT !.isUndoing = TRUE, !.mutex = t])
                  /\ frames' = Call(t, [f EXCEPT !.pc = "exit"],
                                    NewFrame("UndoFn", At(c, c.present).params, "ctor",
                                             Len(At(c, c.present).params.ch)))
                  /\ ev' = Event("UndoInvoke", t, FALSE, TRUE, f.ctx)
                  /\ cur' = IF Len(frames[t]) = 1
                            THEN [cur EXCEPT !.rec = At(c, c.present), !.lock = @ \/ s_Lock]
                            ELSE cur
                  /\ UNCHANGED <<s_Context, s_Lock, nextId, objects, ub, obsLog, snap>>

\* Undo after the closure returned: the cursor, the flag, the observer.
UndoExit(t) ==
    /\ AtPc(t, "Undo", "exit")
    /\ LET f == Top(t)
           c == GetCtx(root, f.ctx)
       IN /\ root' = SetCtx(root, f.ctx,
                            [c EXCEPT !.present = @ - 1, !.isUndoing = FALSE, !.mutex = 0])
          /\ obsLog' = Append(obsLog, <<f.ctx, c.present - 1>>)
          /\ frames' = Return(t, CallResult(f))
          /\ ev' = Event("Undo", t, CallResult(f), TRUE, f.ctx)
          /\ cur' = CurReturn(t, CallResult(f), s_Lock)
          /\ UNCHANGED <<s_Context, s_Lock, nextId, objects, ub, snap>>

\* Redo with its cursor left where it is.
RedoAdvanceLate(c) == c

\* ++m_PresentHistoryIdx, inside m_HistoryStack[++m_PresentHistoryIdx]->Redo():
\* the cursor is advanced before the closure is invoked.
RedoAdvance(c) == [c EXCEPT !.present = @ + 1]

\* Redo from the mutex on: with the cursor at the top it returns false,
\* otherwise it sets the flag, advances the cursor and invokes the do closure
\* of the record the cursor has reached.
RedoEnter(t) ==
    /\ AtPc(t, "Redo", "enter")
    /\ LET f == Top(t)
           c == GetCtx(root, f.ctx)
           n == RedoAdvance(c)
       IN /\ TryLock(c)
          /\ IF RedoBoundary(c)
             THEN /\ frames' = Return(t, FALSE)
                  /\ ev' = Event("Redo", t, FALSE, FALSE, f.ctx)
                  /\ cur' = CurReturn(t, FALSE, s_Lock)
                  /\ UNCHANGED <<root, s_Context, s_Lock, nextId, objects, ub, obsLog, snap>>
             ELSE IF ~InRange(n, n.present) THEN Crash("index outside the vector")
             ELSE IF IsNull(At(n, n.present)) THEN Crash("null record")
             ELSE /\ root' = SetCtx(root, f.ctx,
                                    [n EXCEPT !.isRedoing = TRUE, !.mutex = t])
                  /\ frames' = Call(t, [f EXCEPT !.pc = "exit"],
                                    NewFrame("Do", At(n, n.present).params, "push", 1))
                  /\ ev' = Event("RedoInvoke", t, FALSE, TRUE, f.ctx)
                  /\ cur' = IF Len(frames[t]) = 1
                            THEN [cur EXCEPT !.rec = At(n, n.present), !.lock = @ \/ s_Lock]
                            ELSE cur
                  /\ UNCHANGED <<s_Context, s_Lock, nextId, objects, ub, obsLog, snap>>

\* Redo after the closure returned: the flag, the observer.
RedoExit(t) ==
    /\ AtPc(t, "Redo", "exit")
    /\ LET f == Top(t)
           c == GetCtx(root, f.ctx)
       IN /\ root' = SetCtx(root, f.ctx, [c EXCEPT !.isRedoing = FALSE, !.mutex = 0])
          /\ obsLog' = Append(obsLog, <<f.ctx, c.present>>)
          /\ frames' = Return(t, CallResult(f))
          /\ ev' = Event("Redo", t, CallResult(f), TRUE, f.ctx)
          /\ cur' = CurReturn(t, CallResult(f), s_Lock)
          /\ UNCHANGED <<s_Context, s_Lock, nextId, objects, ub, snap>>

\* ------------------------------------------------------ do-functions
\* A do-function is HISTORY_PUSH (Push, then the HistoryPushController's
\* constructor), its mementos, its body, and the controller's destructor at
\* the closing brace.  Add is AddNewObject/AddObject, Remove is RemoveObject,
\* Merge is MergeObjects; Doomed aborts its push, Gate switches the gate.
AfterPushCtor(sh) ==
    CASE sh.k = "Merge" -> "load"
      [] sh.k = "Remove" -> "save"
      [] sh.k = "Doomed" -> "release"
      [] sh.k = "Probe" -> "probe"
      [] OTHER -> "body"

\* An id source whose counter sticks after the first id.
NewIDSame(n) == IF n = 0 THEN n + 1 ELSE n

\* History::NewID, return ++id on the static unsigned counter whose value is
\* n; the host's bounds keep the counter far below the wrap-around at 2^32.
NewID(n) == n + 1

\* HISTORY_PUSH, first half: assert(GetContext()), GetContext()->Push(...)
DoPush(t) ==
    /\ AtPc(t, "Do", "push")
    /\ LET f == Top(t) IN
       IF s_Context = NullCtx THEN Crash("null context")
       ELSE LET res == Push(root, s_Lock, s_Context, NewID(nextId), f.arg) IN
            IF res.ub THEN Crash("pop_back of an empty vector")
            ELSE /\ root' = res.root
                 /\ nextId' = IF res.eff THEN NewID(nextId) ELSE nextId
                 /\ frames' = Step(t, [f EXCEPT !.pc = "ctor"])
                 /\ ev' = Event("Push", t, res.eff, res.eff, s_Context)
                 /\ UNCHANGED <<s_Context, s_Lock, objects, ub, obsLog, cur, snap>>

\* HISTORY_PUSH, second half: the HistoryPushController is constructed.
PushCtor(t) ==
    /\ AtPc(t, "Do", "ctor")
    /\ LET f == Top(t)
           res == PushControllerCtor(root, s_Lock, s_Context)
       IN IF res.ub THEN Crash("null record")
          ELSE /\ s_Context' = res.ctx
               /\ frames' = Step(t, [f EXCEPT !.pc = AfterPushCtor(f.arg), !.active = TRUE,
                                              !.ctx = IF res.eff THEN res.ctx ELSE NullCtx,
                                              !.was = s_Context])
               /\ ev' = Event("PushCtor", t, res.eff, res.eff, s_Context)
               /\ UNCHANGED <<root, s_Lock, nextId, objects, ub, obsLog, cur, snap>>

\* MergeObjects: if (!HISTORY_LOAD(hNewValues))
DoLoad(t) ==
    /\ AtPc(t, "Do", "load")
    /\ LET f == Top(t)
           tgt == MementoTarget(root, s_Lock, s_Context)
       IN IF tgt.ub THEN Crash("null record")
          ELSE LET res == IF tgt.null THEN [ret |-> FALSE, exc |-> FALSE, val |-> Uninit]
                          ELSE Load(root, s_Lock, tgt.rp,
                                    HISTORY_KEY("hNewValues", "MergeObjects", FALSE), "set")
               IN IF res.exc THEN Crash("bad_any_cast")
                  ELSE /\ frames' = Step(t, [f EXCEPT !.ok = res.ret, !.h = res.val,
                                                     !.pc = IF res.ret THEN "body" ELSE "save"])
                       /\ ev' = Event("Load", t, res.ret, res.ret, tgt.rp)
                       /\ UNCHANGED <<root, s_Context, s_Lock, nextId, objects, ub, obsLog,
                                      cur, snap>>

\* The value a do-function computes and saves: RemoveObject's hOldValue is
\* the element it is about to erase (the default 0 when there is none),
\* MergeObjects' hNewValues is computed from the objects it merges.
SavedValue(sh, objs) ==
    IF sh.k = "Remove"
    THEN [type |-> "int", val |-> IF objs = <<>> THEN 0 ELSE Last(objs)]
    ELSE [type |-> "set", val |-> Len(objs)]

SavedKey(sh, inUndo) ==
    IF sh.k = "Remove" THEN HISTORY_KEY("hOldValue", "RemoveObject", inUndo)
    ELSE HISTORY_KEY("hNewValues", "MergeObjects", inUndo)

\* HISTORY_SAVE(hOldValue) in RemoveObject, HISTORY_SAVE(hNewValues) in
\* MergeObjects.
DoSave(t) ==
    /\ AtPc(t, "Do", "save")
    /\ LET f == Top(t)
           tgt == MementoTarget(root, s_Lock, s_Context)
           v == SavedValue(f.arg, objects)
       IN IF tgt.ub THEN Crash("null record")
          ELSE LET res == IF tgt.null THEN [root |-> root, ret |-> FALSE]
                          ELSE Save(root, s_Lock, tgt.rp, SavedKey(f.arg, FALSE), v)
               IN /\ root' = res.root
                  /\ frames' = Step(t, [f EXCEPT !.ok = res.ret, !.h = v.val, !.pc = "body"])
                  /\ ev' = Event("Save", t, res.ret, res.ret, tgt.rp)
                  /\ UNCHANGED <<s_Context, s_Lock, nextId, objects, ub, obsLog, cur, snap>>

\* The body proper: the host's own change, or the next nested do-call.
DoBody(t) ==
    /\ AtPc(t, "Do", "body")
    /\ LET f == Top(t)
           n == Len(f.arg.ch)
       IN CASE f.arg.k = "Add" ->
                 /\ objects' = Append(objects, f.arg.v)
                 /\ frames' = Step(t, [f EXCEPT !.pc = "dtor"])
                 /\ UNCHANGED <<root, s_Context, s_Lock, nextId, ub, ev, obsLog, cur, snap>>
            [] f.arg.k = "Remove" ->
                 /\ objects' = IF objects = <<>> THEN objects ELSE Front(objects)
                 /\ frames' = Step(t, [f EXCEPT !.pc = "dtor"])
                 /\ UNCHANGED <<root, s_Context, s_Lock, nextId, ub, ev, obsLog, cur, snap>>
            [] f.arg.k = "Gate" ->
                 /\ s_Lock' = (f.arg.v = 1)
                 /\ frames' = Step(t, [f EXCEPT !.pc = "dtor"])
                 /\ cur' = [cur EXCEPT !.lock = @ \/ (f.arg.v = 1)]
                 /\ ev' = Event(IF f.arg.v = 1 THEN "Disable" ELSE "Enable", t, TRUE, TRUE,
                                NullCtx)
                 /\ UNCHANGED <<root, s_Context, nextId, objects, ub, obsLog, snap>>
            [] f.arg.k = "Reenter" ->
                 /\ frames' = IF s_Lock THEN Step(t, [f EXCEPT !.pc = "dtor"])
                              ELSE Call(t, [f EXCEPT !.pc = "dtor"],
                                        [NewFrame("Redo", NoShape, "enter", 1)
                                            EXCEPT !.ctx = <<>>])
                 /\ UNCHANGED <<root, s_Context, s_Lock, nextId, objects, ub, ev, obsLog,
                                cur, snap>>
            [] OTHER ->
                 /\ frames' = IF f.i > n THEN Step(t, [f EXCEPT !.pc = "dtor"])
                              ELSE Call(t, [f EXCEPT !.i = @ + 1,
                                                     !.pc = IF f.i = n THEN "dtor" ELSE "body"],
                                        NewFrame("Do", f.arg.ch[f.i], "push", 1))
                 /\ UNCHANGED <<root, s_Context, s_Lock, nextId, objects, ub, ev, obsLog,
                                cur, snap>>

\* HISTORY_ABORT_PUSH, first half: the controller's destructor, called early.
AbortRelease(t) ==
    /\ AtPc(t, "Do", "release")
    /\ LET f == Top(t)
           res == PushControllerDtor(root, s_Lock, s_Context, f.active)
       IN IF res.ub THEN Crash("null context")
          ELSE /\ root' = res.root
               /\ s_Context' = res.ctx
               /\ obsLog' = obsLog \o res.obs
               /\ frames' = Step(t, [f EXCEPT !.active = res.active, !.pc = "abort"])
               /\ ev' = Event("PushDtor", t, res.eff, res.eff, s_Context)
               /\ UNCHANGED <<s_Lock, nextId, objects, ub, cur, snap>>

\* HISTORY_ABORT_PUSH, second half: GetContext()->AbortPush(); the do-function
\* then returns false.
AbortPushStep(t) ==
    /\ AtPc(t, "Do", "abort")
    /\ LET f == Top(t) IN
       IF ~s_Lock /\ s_Context = NullCtx THEN Crash("null context")
       ELSE LET res == IF s_Lock THEN [ub |-> FALSE, root |-> root, eff |-> FALSE]
                       ELSE AbortPush(root, s_Lock, s_Context)
            IN IF res.ub THEN Crash("pop_back of an empty vector")
               ELSE /\ root' = res.root
                    /\ frames' = Step(t, [f EXCEPT !.ret = FALSE, !.pc = "dtor"])
                    /\ ev' = Event("AbortPush", t, res.eff, res.eff, s_Context)
                    /\ UNCHANGED <<s_Context, s_Lock, nextId, objects, ub, obsLog, cur, snap>>

\* The closing brace of a do-function: the controller's destructor, return.
PushDtor(t) ==
    /\ AtPc(t, "Do", "dtor")
    /\ LET f == Top(t)
           res == PushControllerDtor(root, s_Lock, s_Context, f.active)
       IN IF res.ub THEN Crash("null context")
          ELSE /\ root' = res.root
               /\ s_Context' = res.ctx
               /\ obsLog' = obsLog \o res.obs
               /\ frames' = Return(t, f.ret)
               /\ ev' = Event("PushDtor", t, res.eff, res.eff, s_Context)
               /\ cur' = CurReturn(t, f.ret, s_Lock)
               /\ UNCHANGED <<s_Lock, nextId, objects, ub, snap>>

\* ---------------------------------------------------- undo-functions
\* An undo-function is HISTORY_POP (the HistoryPopController's constructor),
\* its memento, its body, and the controller's destructor.
AfterPopCtor(sh) ==
    CASE sh.k = "Remove" -> "load"
      [] sh.k = "Probe" -> "probe"
      [] sh.k = "Add" -> "body"
      [] sh.k = "Merge" /\ Len(sh.ch) > 0 -> "body"
      [] OTHER -> "dtor"

\* HISTORY_POP
PopCtor(t) ==
    /\ AtPc(t, "UndoFn", "ctor")
    /\ LET f == Top(t)
           res == PopControllerCtor(root, s_Lock, s_Context)
       IN IF res.ub THEN Crash("null record")
          ELSE /\ s_Context' = res.ctx
               /\ frames' = Step(t, [f EXCEPT !.pc = AfterPopCtor(f.arg),
                                              !.ctx = IF res.eff THEN res.ctx ELSE NullCtx,
                                              !.was = s_Context])
               /\ ev' = Event("PopCtor", t, res.eff, res.eff, s_Context)
               /\ UNCHANGED <<root, s_Lock, nextId, objects, ub, obsLog, cur, snap>>

\* RemoveObject_Undo: HISTORY_LOAD(hOldValue)
UndoLoad(t) ==
    /\ AtPc(t, "UndoFn", "load")
    /\ LET f == Top(t)
           tgt == MementoTarget(root, s_Lock, s_Context)
       IN IF tgt.ub THEN Crash("null record")
          ELSE LET res == IF tgt.null THEN [ret |-> FALSE, exc |-> FALSE, val |-> Uninit]
                          ELSE Load(root, s_Lock, tgt.rp, SavedKey(f.arg, TRUE), "int")
               IN IF res.exc THEN Crash("bad_any_cast")
                  ELSE /\ frames' = Step(t, [f EXCEPT !.ok = res.ret, !.h = res.val,
                                                     !.pc = "body"])
                       /\ ev' = Event("Load", t, res.ret, res.ret, tgt.rp)
                       /\ UNCHANGED <<root, s_Context, s_Lock, nextId, objects, ub, obsLog,
                                      cur, snap>>

\* The body proper: AddNewObject_Undo pops the element, RemoveObject_Undo
\* calls AddObject with the loaded value (whatever the local holds when the
\* load failed), MergeObjects_Undo calls the undo-functions of its nested
\* calls in reverse order, a nested call that aborted its push having
\* nothing to undo.
UndoBody(t) ==
    /\ AtPc(t, "UndoFn", "body")
    /\ LET f == Top(t) IN
       CASE f.arg.k = "Add" ->
              IF objects = <<>> THEN Crash("pop_back of an empty vector")
              ELSE /\ objects' = Front(objects)
                   /\ frames' = Step(t, [f EXCEPT !.pc = "dtor"])
                   /\ UNCHANGED <<root, s_Context, s_Lock, nextId, ub, ev, obsLog, cur, snap>>
         [] f.arg.k = "Remove" ->
              /\ \E v \in (IF f.h = Uninit THEN Values ELSE {f.h}) :
                    frames' = Call(t, [f EXCEPT !.pc = "dtor"],
                                   NewFrame("Do", AddSh(v), "push", 1))
              /\ UNCHANGED <<root, s_Context, s_Lock, nextId, objects, ub, ev, obsLog,
                             cur, snap>>
         [] f.arg.k = "Reenter" ->
              /\ frames' = Step(t, [f EXCEPT !.pc = "dtor"])
              /\ UNCHANGED <<root, s_Context, s_Lock, nextId, objects, ub, ev, obsLog,
                             cur, snap>>
         [] OTHER ->
              /\ frames' = IF f.arg.ch[f.i].k = "Doomed"
                            THEN Step(t, [f EXCEPT !.i = @ - 1,
                                                   !.pc = IF f.i = 1 THEN "dtor" ELSE "body"])
                            ELSE Call(t, [f EXCEPT !.i = @ - 1,
                                                   !.pc = IF f.i = 1 THEN "dtor" ELSE "body"],
                                      NewFrame("UndoFn", f.arg.ch[f.i], "ctor",
                                               Len(f.arg.ch[f.i].ch)))
              /\ UNCHANGED <<root, s_Context, s_Lock, nextId, objects, ub, ev, obsLog,
                             cur, snap>>

\* The closing brace of an undo-function: the controller's destructor, return.
PopDtor(t) ==
    /\ AtPc(t, "UndoFn", "dtor")
    /\ LET f == Top(t)
           res == PopControllerDtor(root, s_Lock, s_Context)
       IN IF res.ub THEN Crash("null context")
          ELSE /\ root' = res.root
               /\ s_Context' = res.ctx
               /\ frames' = Return(t, f.ret)
               /\ ev' = Event("PopDtor", t, res.eff, res.eff, s_Context)
               /\ cur' = CurReturn(t, f.ret, s_Lock)
               /\ UNCHANGED <<s_Lock, nextId, objects, ub, obsLog, snap>>

\* ------------------------------------- a host probing the memento store
\* Keys the probing host uses: a plain one, and one with "_Undo" inside.
KeyPlain == <<"a">>
KeyInner == <<"a", "_", "U", "n", "d", "o", "b">>
ProbeKeys == {KeyPlain, KeyInner}
\* A load names a key as saved, or with the suffix of the undo-function.
LoadKeys == ProbeKeys \cup {k \o UndoSuffix : k \in ProbeKeys}
ProbeTypes == {"int", "set"}
ProbeValues ==
    {[type |-> "int", val |-> 1], [type |-> "int", val |-> 2], [type |-> "set", val |-> 1]}

\* One statement of the probing do-function or undo-function:
\* Present()->Save(key, value), Present()->Load(key, out) with out the local
\* h, or the return statement.  A Load whose any_cast throws leaves the
\* function by the exception (pc "throw").
ProbeStep(t) ==
    /\ frames[t] # <<>>
    /\ LET f == Top(t)
           tgt == MementoTarget(root, s_Lock, s_Context)
       IN \/ /\ frames' = Step(t, [f EXCEPT !.pc = "dtor", !.ret = (f.arg.v = 1)])
             /\ UNCHANGED <<root, s_Context, s_Lock, nextId, objects, ub, ev, obsLog, cur, snap>>
          \/ /\ f.i <= MaxProbe
             /\ IF tgt.ub \/ tgt.null THEN Crash("null record")
                ELSE \E key \in ProbeKeys, v \in ProbeValues :
                       LET res == Save(root, s_Lock, tgt.rp, key, v) IN
                       /\ root' = res.root
                       /\ frames' = Step(t, [f EXCEPT !.i = @ + 1, !.ok = res.ret])
                       /\ ev' = [Event("Save", t, res.ret, res.ret, tgt.rp) EXCEPT
                                   !.m = [key |-> key, type |-> v.type, val |-> v.val,
                                          exc |-> FALSE]]
                       /\ UNCHANGED <<s_Context, s_Lock, nextId, objects, ub, obsLog, cur, snap>>
          \/ /\ f.i <= MaxProbe
             /\ IF tgt.ub \/ tgt.null THEN Crash("null record")
                ELSE \E key \in LoadKeys, type \in ProbeTypes :
                       LET res == Load(root, s_Lock, tgt.rp, key, type) IN
                       /\ ev' = [Event("Load", t, res.ret, res.ret, tgt.rp) EXCEPT
                                   !.m = [key |-> key, type |-> type, val |-> 0,
                                          exc |-> res.exc]]
                       /\ frames' = IF res.exc THEN Step(t, [f EXCEPT !.pc = "throw"])
                                    ELSE Step(t, [f EXCEPT !.i = @ + 1, !.ok = res.ret,
                                                           !.h = IF res.ret THEN res.val ELSE @])
                       /\ UNCHANGED <<root, s_Context, s_Lock, nextId, objects, ub, obsLog,
                                      cur, snap>>

DoProbe(t) ==
    /\ AtPc(t, "Do", "probe")
    /\ ProbeStep(t)

UndoProbe(t) ==
    /\ AtPc(t, "UndoFn", "probe")
    /\ ProbeStep(t)

\* The call stack of t after the exception left its top frame: the frame is
\* gone and its caller is left by the exception in turn.
Throw(t) ==
    [frames EXCEPT ![t] =
        IF Len(@) = 1 THEN <<>>
        ELSE Append(SubSeq(@, 1, Len(@) - 2), [@[Len(@) - 1] EXCEPT !.pc = "throw"])]

\* std::bad_any_cast leaves a do-function or an undo-function: stack unwinding
\* runs the destructor of its controller.
UnwindScope(t) ==
    /\ ub = "none"
    /\ frames[t] # <<>>
    /\ Top(t).pc = "throw"
    /\ Top(t).fn \in {"Do", "UndoFn"}
    /\ LET f == Top(t)
           res == IF f.fn = "Do"
                  THEN PushControllerDtor(root, s_Lock, s_Context, f.active)
                  ELSE PopControllerDtor(root, s_Lock, s_Context)
           obs == IF f.fn = "Do" THEN res.obs ELSE <<>>
       IN IF res.ub THEN Crash("null context")
          ELSE /\ root' = res.root
               /\ s_Context' = res.ctx
               /\ obsLog' = obsLog \o obs
               /\ frames' = Throw(t)
               /\ ev' = Event("Unwind", t, FALSE, res.eff, s_Context)
               /\ UNCHANGED <<s_Lock, nextId, objects, ub, cur, snap>>

\* The exception leaves HistoryContext::Undo or Redo: the scoped_lock is
\* released, and nothing else of what follows the closure call is executed;
\* the host that called Undo or Redo catches the exception and goes on.
UnwindCall(t) ==
    /\ ub = "none"
    /\ frames[t] # <<>>
    /\ Top(t).pc = "throw"
    /\ Top(t).fn \in {"Undo", "Redo"}
    /\ LET f == Top(t)
           c == GetCtx(root, f.ctx)
       IN /\ root' = SetCtx(root, f.ctx, [c EXCEPT !.mutex = 0])
          /\ frames' = Throw(t)
          /\ ev' = Event("Unwind", t, FALSE, TRUE, f.ctx)
          /\ UNCHANGED <<s_Context, s_Lock, nextId, objects, ub, obsLog, cur, snap>>

\* The observer bound to a context calls Undo() on that context when the
\* stack changed: m_OnStackChanged(m_PresentHistoryIdx) at the end of Undo or
\* Redo runs with the flag cleared, the cursor moved for an undo, and the
\* scoped_lock of the notifying call still alive.
ObserverReenters(t) ==
    /\ ub = "none"
    /\ frames[t] # <<>>
    /\ Top(t).pc = "exit"
    /\ Top(t).fn \in {"Undo", "Redo"}
    /\ ~s_Lock
    /\ LET f == Top(t)
           c == GetCtx(root, f.ctx)
           n == IF f.fn = "Undo"
                THEN [c EXCEPT !.present = @ - 1, !.isUndoing = FALSE]
                ELSE [c EXCEPT !.isRedoing = FALSE]
       IN /\ root' = SetCtx(root, f.ctx, n)
          /\ obsLog' = Append(obsLog, <<f.ctx, n.present>>)
          /\ frames' = Call(t, [f EXCEPT !.pc = "notify"],
                            [NewFrame("Undo", NoShape, "enter", 1) EXCEPT !.ctx = f.ctx])
          /\ ev' = Event("Notify", t, CallResult(f), TRUE, f.ctx)
          /\ UNCHANGED <<s_Context, s_Lock, nextId, objects, ub, cur, snap>>

\* std::scoped_lock<std::mutex> lock(m_Mutex) executed by the thread that
\* owns m_Mutex already.  std::mutex is not recursive and locking it again is
\* undefined: the thread blocks on itself for good, or the library detects
\* the relock and throws std::system_error (resource_deadlock_would_occur),
\* which leaves the call before any lock object exists.
Relock(t) ==
    /\ ub = "none"
    /\ frames[t] # <<>>
    /\ Top(t).pc = "enter"
    /\ Top(t).fn \in {"Undo", "Redo"}
    /\ GetCtx(root, Top(t).ctx).mutex = t
    /\ \/ frames' = Step(t, [Top(t) EXCEPT !.pc = "blocked"])
       \/ frames' = Throw(t)
    /\ ev' = Event("Relock", t, FALSE, FALSE, Top(t).ctx)
    /\ UNCHANGED <<root, s_Context, s_Lock, nextId, objects, ub, obsLog, cur, snap>>

\* ------------------------------------------------------ specifications
\* What the model lets the host start: a do-function of shape sh ...
RoomFor(sh) ==
    /\ nextId + Cost(sh) <= MaxId
    /\ Len(objects) + Cost(sh) <= MaxObjects

RoomForGate(sh) ==
    /\ nextId + Cost(sh) <= MaxIdGate
    /\ Len(objects) + Cost(sh) <= MaxObjectsGate

BodyStep(t) ==
    \/ UndoEnter(t)
    \/ UndoExit(t)
    \/ RedoEnter(t)
    \/ RedoExit(t)
    \/ DoPush(t)
    \/ PushCtor(t)
    \/ DoLoad(t)
    \/ DoSave(t)
    \/ DoBody(t)
    \/ AbortRelease(t)
    \/ AbortPushStep(t)
    \/ PushDtor(t)
    \/ PopCtor(t)
    \/ UndoLoad(t)
    \/ UndoBody(t)
    \/ PopDtor(t)

\* One driving thread, the gate left unlocked: the host calls do-functions,
\* Undo, Redo, Clear and AbortPush in any order, each running to its end.
Next ==
    \/ \E sh \in TopShapes \ {GateSh(0), GateSh(1)} : RoomFor(sh) /\ CallDo(1, sh)
    \/ CallUndo(1)
    \/ CallRedo(1)
    \/ CallClear(1)
    \/ CallAbortPush(1)
    \/ BodyStep(1)

Spec == Init /\ [][Next]_vars

\* One driving thread that also locks and unlocks the gate, between its
\* calls and inside do-functions.
GateShapes == {AddSh(1), RemoveSh, DoomedSh, GateSh(0), GateSh(1), MergeSh(<<AddSh(1)>>)}

NextGate ==
    \/ \E sh \in GateShapes : RoomForGate(sh) /\ CallDo(1, sh)
    \/ Len(objects) < MaxObjectsGate /\ CallUndo(1)
    \/ Len(objects) < MaxObjectsGate /\ CallRedo(1)
    \/ CallClear(1)
    \/ CallAbortPush(1)
    \/ Disable(1)
    \/ Enable(1)
    \/ BodyStep(1)

SpecGate == Init /\ [][NextGate]_vars

\* Two threads on a history the host has built: each calls Undo and Redo on
\* the active context and switches the gate, interleaved statement by
\* statement; the host adds records only while no call is in progress.
NextMT ==
    \/ /\ \A u \in Threads : Idle(u)
       /\ RoomForGate(AddSh(1))
       /\ CallDo(1, AddSh(1))
    \/ \E t \in Threads :
          \/ Len(objects) < MaxObjectsGate /\ CallUndo(t)
          \/ Len(objects) < MaxObjectsGate /\ CallRedo(t)
          \/ Disable(t)
          \/ Enable(t)
          \/ UndoEnter(t)
          \/ UndoExit(t)
          \/ RedoEnter(t)
          \/ RedoExit(t)
          \/ DoPush(t)
          \/ PushCtor(t)
          \/ DoBody(t)
          \/ PushDtor(t)
          \/ PopCtor(t)
          \/ UndoBody(t)
          \/ PopDtor(t)

SpecMT == Init /\ [][NextMT]_vars

\* The probing host: it pushes records whose do-function and undo-function
\* save and load as they please, and undoes and redoes them.
NextMemento ==
    \/ \E v \in {0, 1} : nextId < MaxIdProbe /\ CallDo(1, ProbeSh(v))
    \/ CallUndo(1)
    \/ CallRedo(1)
    \/ UndoEnter(1)
    \/ UndoExit(1)
    \/ RedoEnter(1)
    \/ RedoExit(1)
    \/ DoPush(1)
    \/ PushCtor(1)
    \/ DoProbe(1)
    \/ PushDtor(1)
    \/ PopCtor(1)
    \/ UndoProbe(1)
    \/ PopDtor(1)
    \/ UnwindScope(1)
    \/ UnwindCall(1)

SpecMemento == Init /\ [][NextMemento]_vars

\* A host whose merging do-function makes nested calls that abort their push
\* (HISTORY_ABORT_PUSH): it calls do-functions, Undo and Redo, each to its end.
ReplayShapes ==
    { AddSh(1), RemoveSh, MergeSh(<<AddSh(1), DoomedSh>>), MergeSh(<<DoomedSh>>) }

RoomForReplay(sh) ==
    /\ nextId + Cost(sh) <= MaxIdReplay
    /\ Len(objects) + Cost(sh) <= MaxObjectsReplay

NextReplay ==
    \/ \E sh \in ReplayShapes : RoomForReplay(sh) /\ CallDo(1, sh)
    \/ CallUndo(1)
    \/ CallRedo(1)
    \/ BodyStep(1)

SpecReplay == Init /\ [][NextReplay]_vars

\* A host whose observer and whose do-function call Undo and Redo on the
\* context that is notifying or replaying.  Every call the host has started
\* keeps executing: the steps of thread 1 inside a call are weakly fair.
ReentryShapes == { AddSh(1), ReenterSh }

RoomForReentry(sh) ==
    /\ nextId + Cost(sh) <= MaxIdReentry
    /\ Len(objects) + Cost(sh) <= MaxObjectsReentry

Running1 ==
    \/ UndoEnter(1)
    \/ UndoExit(1)
    \/ RedoEnter(1)
    \/ RedoExit(1)
    \/ DoPush(1)
    \/ PushCtor(1)
    \/ DoBody(1)
    \/ PushDtor(1)
    \/ PopCtor(1)
    \/ UndoBody(1)
    \/ PopDtor(1)
    \/ ObserverReenters(1)
    \/ Relock(1)
    \/ UnwindScope(1)
    \/ UnwindCall(1)

NextReentry ==
    \/ \E sh \in ReentryShapes : RoomForReentry(sh) /\ CallDo(1, sh)
    \/ CallUndo(1)
    \/ CallRedo(1)
    \/ Running1

SpecReentry == Init /\ [][NextReentry]_vars /\ WF_vars(Running1)

\* ------------------------------------------------------------- properties
\* s_Context is null or the path of a live context.
ContextLive == s_Context = NullCtx \/ ValidPath(root, s_Context)

\* Every context of the tree below c satisfies P.
RECURSIVE CursorsInRange(_)
CursorsInRange(c) ==
    /\ 0 <= c.present
    /\ c.present <= Size(c) - 1
    /\ \A i \in 1..Len(c.stack) : IsNull(c.stack[i]) \/ CursorsInRange(c.stack[i].sub)

\* C1. Cursor range: in every state reached by the public operations of a
\* context (push, abortPush, undo, redo, clear, in any order), every context
\* has 0 <= present <= |stack| - 1.
C1_CursorRange == CursorsInRange(root)

AllIdle == \A t \in Threads : Idle(t)

\* The context the latest top-level call ran on, as it is now.
CurCtx == GetCtx(root, cur.ctx)

\* C2. Undo/redo inverse: after a sequence of top-level do-functions, an Undo
\* immediately followed by a Redo leaves the host's data, every stack, every
\* cursor and every memento as they were before the Undo.
C2_UndoRedoInverse ==
    (snap.phase = "UR" /\ cur.op = "Redo" /\ cur.done /\ ub = "none")
        => (objects = snap.objects /\ root = snap.root)

\* The pair undid and redid a record with three nested records.
C2_Witness ==
    /\ snap.phase = "UR" /\ cur.op = "Redo" /\ cur.done /\ cur.ret /\ ub = "none"
    /\ cur.rec.params.k = "Merge"
    /\ Len(cur.rec.params.ch) = 3
    /\ objects = snap.objects /\ root = snap.root

\* The step of thread t is the Push of HISTORY_PUSH.
PushStep(t) == AtPc(t, "Do", "push") /\ frames'[t] # frames[t]

\* C3. Redo-tail truncation: an effective push with the cursor at p leaves the
\* new record at index p+1, present = p+1 = |stack|-1, whatever was above p
\* gone and the records at 1..p unchanged.
C3_RedoTailTruncation ==
    [][\A t \in Threads :
          (PushStep(t) /\ ev'.eff) =>
              LET c == GetCtx(root, s_Context)
                  d == GetCtx(root', s_Context)
                  q == c.present
              IN /\ d.present = q + 1
                 /\ d.present = Size(d) - 1
                 /\ At(d, q + 1) = NewHistory(nextId', Top(t).arg)
                 /\ nextId' = nextId + 1
                 /\ \A i \in 1..q : i < Size(c) => At(d, i) = At(c, i)]_vars

\* A push has just discarded a redo tail above a record it kept.
C3_Witness ==
    /\ ev.op = "Push" /\ ev.eff /\ ub = "none"
    /\ ev.pre >= 1
    /\ ev.size > ev.pre + 1
    /\ ev.ctx # NullCtx
    /\ GetCtx(root, ev.ctx).present = ev.pre + 1
    /\ Size(GetCtx(root, ev.ctx)) = ev.pre + 2

\* The context of path p or one of its ancestors has a phase flag set.
RECURSIVE InPhase(_, _)
InPhase(r, p) ==
    \/ GetCtx(r, p).isUndoing
    \/ GetCtx(r, p).isRedoing
    \/ (p # <<>> /\ InPhase(r, Front(p)))

\* The step of thread t is the Save of HISTORY_SAVE.
SaveStep(t) == AtPc(t, "Do", "save") /\ frames'[t] # frames[t]

\* C4. Phase guard: while a context or one of its ancestors is undoing or
\* redoing, push on it leaves stack and cursor unchanged and a save on its
\* records stores nothing and returns false.
C4_PhaseGuard ==
    [][\A t \in Threads :
          /\ (PushStep(t) /\ s_Context # NullCtx /\ InPhase(root, s_Context))
                => (root' = root /\ nextId' = nextId /\ ~ev'.eff)
          /\ (SaveStep(t) /\ s_Context # NullCtx /\ InPhase(root, s_Context))
                => (root' = root /\ ~ev'.ret)]_vars

\* A do-function re-run by Redo has pushed and saved to no effect.
C4_Witness ==
    /\ ev.op = "Save" /\ ~ev.ret /\ ~ev.lock /\ ub = "none"
    /\ ev.ctx # NullCtx
    /\ InPhase(root, ev.ctx)
    /\ frames[1] # <<>>
    /\ frames[1][1].fn = "Redo"
    /\ Top(1).fn = "Do" /\ Top(1).arg.k = "Remove" /\ Top(1).pc = "body"

\* C5. Sub-stack build-up: after a do-function that made N nested do-calls,
\* each pushing, returned at top level (no undo or redo running, the gate
\* open), the parent's cursor has advanced by 1 onto the new record R, R's
\* sub-context holds N records with its cursor at N, and the active context
\* is the parent again.
C5_SubStackBuildUp ==
    (/\ cur.op = "Do" /\ cur.done /\ ~cur.lock /\ ub = "none" /\ AllIdle
     /\ cur.sh.k \in {"Add", "Remove", "Merge"})
        => /\ CurCtx.present = cur.present + 1
           /\ InRange(CurCtx, CurCtx.present)
           /\ ~IsNull(At(CurCtx, CurCtx.present))
           /\ At(CurCtx, CurCtx.present).params = cur.sh
           /\ Size(At(CurCtx, CurCtx.present).sub) - 1 = Len(cur.sh.ch)
           /\ At(CurCtx, CurCtx.present).sub.present = Len(cur.sh.ch)
           /\ s_Context = cur.ctx

\* A do-function with three nested do-calls has returned.
C5_Witness ==
    /\ cur.op = "Do" /\ cur.done /\ ~cur.lock /\ ub = "none" /\ AllIdle
    /\ cur.sh.k = "Merge" /\ Len(cur.sh.ch) = 3
    /\ At(CurCtx, CurCtx.present).sub.present = 3

\* The latest top-level call was an Undo that ran the undo-function of a
\* record with N >= 1 nested records and the cursor of its sub-context at N.
UndoneNested ==
    /\ cur.op = "Undo" /\ cur.done /\ cur.ret /\ ~cur.lock /\ ub = "none" /\ AllIdle
    /\ ~IsNull(cur.rec)
    /\ cur.rec.params.k = "Merge"
    /\ Size(cur.rec.sub) - 1 >= 1
    /\ cur.rec.sub.present = Size(cur.rec.sub) - 1
    /\ InRange(CurCtx, cur.present)

\* C6 as stated. Sub-stack unwind: after the outer Undo of a record with
\* N >= 1 nested records, whose undo-function calls the N matching
\* undo-functions in reverse order, the sub-context's cursor is 0 and the
\* parent's cursor has decreased by exactly 1.
C6_UnwindToZero ==
    UndoneNested => /\ At(CurCtx, cur.present).sub.present = 0
                    /\ CurCtx.present = cur.present - 1

\* C6, amended. Sub-stack unwind: after that Undo the sub-context's cursor is
\* 1 (the first nested record, where Redo starts), its N records are all
\* still there, and the parent's cursor has decreased by exactly 1.
C6_SubStackUnwind ==
    UndoneNested => /\ At(CurCtx, cur.present).sub.present = 1
                    /\ Size(At(CurCtx, cur.present).sub) = Size(cur.rec.sub)
                    /\ CurCtx.present = cur.present - 1

\* A record with three nested records has been undone.
C6_Witness ==
    /\ UndoneNested
    /\ Size(cur.rec.sub) - 1 = 3
    /\ At(CurCtx, cur.present).sub.present = 1

\* Frame j of call stack fr runs on the record it was recorded for: its
\* controller descended into that record's sub-context.
OwnRecord(fr, j) ==
    /\ fr[j].ctx # NullCtx
    /\ ValidPath(root, fr[j].ctx)
    /\ GetRec(root, fr[j].ctx).params = fr[j].arg

\* Frames 2..j of fr are all do-functions below a Redo.
RedoChain(fr, j) ==
    /\ fr[1].fn = "Redo"
    /\ \A k \in 2..j : fr[k].fn = "Do"

\* C7. Nested replay order: (a) while a record R with N nested records is
\* undone, the j-th nested undo-function (the one of nested call N-j+1) has
\* its PopScope inside the sub-context of sub-record N-j+1 of R, the record
\* made by the do-function it undoes; (b) while R is redone, the i-th nested
\* do-function has its PushScope inside the sub-context of sub-record i, and
\* the memento R saved when first run is loaded, the value is not recomputed.
\* (Stacks that a stray AbortPush has cut are left aside: there Redo runs
\* records that were never undone.)
C7_NestedReplayOrder ==
    (ub = "none" /\ snap.phase # "B") =>
    \A t \in Threads : \A j \in 2..Len(frames[t]) :
        LET fr == frames[t] IN
        /\ (fr[j].fn = "UndoFn" /\ fr[j].pc # "ctor" /\ fr[j-1].fn = "UndoFn")
              => /\ fr[j].ctx = Append(fr[j-1].ctx, fr[j-1].i + 1)
                 /\ OwnRecord(fr, j)
        /\ (fr[j].fn = "UndoFn" /\ fr[j].pc # "ctor" /\ fr[j-1].fn = "Undo")
              => /\ Front(fr[j].ctx) = fr[j-1].ctx
                 /\ OwnRecord(fr, j)
        /\ (RedoChain(fr, j) /\ fr[j].pc \notin {"push", "ctor"} /\ j > 2)
              => /\ fr[j].ctx = Append(fr[j-1].ctx, fr[j-1].i - 1)
                 /\ OwnRecord(fr, j)
        /\ (RedoChain(fr, j) /\ fr[j].pc \notin {"push", "ctor"} /\ j = 2)
              => /\ Front(fr[j].ctx) = fr[1].ctx
                 /\ OwnRecord(fr, j)
        /\ (RedoChain(fr, j) /\ fr[j].arg.k = "Merge")
              => /\ fr[j].pc # "save"
                 /\ (fr[j].pc \in {"body", "dtor"} =>
                        /\ fr[j].h # Uninit
                        /\ fr[j].h = DataGet(GetRec(root, fr[j].ctx).data,
                                             SavedKey(fr[j].arg, FALSE)).val)

\* Redo is re-running the second of three nested do-functions, inside the
\* second sub-record, after the first was re-run and the memento loaded.
C7_Witness ==
    /\ ub = "none" /\ snap.phase # "B"
    /\ Len(frames[1]) = 3
    /\ RedoChain(frames[1], 3)
    /\ frames[1][2].arg.k = "Merge" /\ Len(frames[1][2].arg.ch) = 3
    /\ frames[1][2].h # Uninit
    /\ frames[1][2].i = 3
    /\ frames[1][3].pc = "body"
    /\ Last(frames[1][3].ctx) = 2

\* The next step of some thread is the tail of an Undo or Redo whose closure
\* has returned: the call passed the gate before the gate was locked.
ExitStep == \E t \in Threads : AtPc(t, "Undo", "exit") \/ AtPc(t, "Redo", "exit")

\* Every context of the tree below c answers null to Present and PeekFuture.
RECURSIVE AllNil(_, _, _)
AllNil(r, lk, p) ==
    /\ Present(r, lk, p).null
    /\ PeekFuture(r, lk, p).null
    /\ \A i \in 0..(Size(GetCtx(r, p)) - 1) :
          IsNull(At(GetCtx(r, p), i)) \/ AllNil(r, lk, Append(p, i))

C9_NoInvokeWhileLocked ==
    ev.op \in {"UndoInvoke", "RedoInvoke"} => ~ev.lock

\* The calls of the observer of the context of the latest top-level call.
RootObs == SelectSeq(obsLog, LAMBDA e : e[1] = cur.ctx)

\* The observer calls the latest top-level call is to have made by the time
\* it returned, a push that was aborted counting for abortFires calls.
ObserverAsClaimed(abortFires) ==
    (cur.done /\ ~cur.lock /\ ub = "none" /\ AllIdle /\ cur.ctx # NullCtx) =>
        CASE cur.op \in {"Undo", "Redo"} ->
                 IF IsNull(cur.rec) THEN RootObs = <<>>
                 ELSE RootObs = << <<cur.ctx, CurCtx.present>> >>
          [] cur.op = "Do" /\ cur.sh.k = "Doomed" -> Len(RootObs) = abortFires
          [] cur.op = "Do" /\ cur.sh.k # "Doomed" ->
                 RootObs = << <<cur.ctx, CurCtx.present>> >>
          [] cur.op = "Clear" -> RootObs = << <<cur.ctx, 0>> >>
          [] OTHER -> RootObs = <<>>

\* C10. Observer count: a context's observer is called exactly once, with
\* the new cursor, for each Undo that ran a record, each Redo that ran a
\* record, each completed top-level push and each Clear on it, and at no
\* other time: not for an Undo or Redo that found nothing to run, not for a
\* push that was aborted, not for nested pushes and scope releases.
C10_ObserverCount == ObserverAsClaimed(0)

\* What holds instead: HISTORY_ABORT_PUSH releases the PushScope before it
\* takes the record back, and that release calls the observer once.
ObserverCountWithAbort == ObserverAsClaimed(1)

\* The latest top-level call was a do-function that pushed, opened its
\* PushScope, ran HISTORY_ABORT_PUSH and returned.
AbortedPush ==
    /\ cur.op = "Do" /\ cur.sh.k = "Doomed" /\ cur.done /\ ~cur.lock
    /\ ub = "none" /\ AllIdle /\ cur.ctx # NullCtx

\* C11. Abort restores the stack: after a do-function pushed a record on a
\* context, opened its PushScope and ran the abort protocol, the context's
\* cursor and stack size are what they were before the push, whatever the
\* state before the push, a redo tail above the cursor included.
C11_AbortRestoresStack ==
    AbortedPush => (CurCtx.present = cur.present /\ Size(CurCtx) = cur.size)

\* What holds instead: the cursor is back, and the stack ends at the cursor;
\* the redo tail the push discarded stays discarded.
AbortRestoresCursor ==
    AbortedPush => (CurCtx.present = cur.present /\ Size(CurCtx) = cur.present + 1)

\* C12. Abort is silent: while a top-level push is made and then aborted
\* through the abort protocol (early release of the PushScope, AbortPush on
\* the parent, the scope's normal exit), the parent's observer is not called.
C12_AbortIsSilent ==
    (cur.op = "Do" /\ cur.sh.k = "Doomed" /\ ~cur.lock /\ cur.ctx # NullCtx)
        => RootObs = <<>>

\* The step of thread t is a Save (op = "Save") or a Load (op = "Load") of the
\* probing host; ev' tells the key, the type and the record addressed.
ProbeCall(t, op) ==
    /\ ub = "none"
    /\ frames[t] # <<>>
    /\ Top(t).pc = "probe"
    /\ ev'.op = op
    /\ frames'[t] # <<>>
    /\ \/ Last(frames'[t]).pc = "throw"
       \/ /\ Last(frames'[t]).pc = "probe"
          /\ Last(frames'[t]).i = Top(t).i + 1

\* The memento map of the record that call addresses, before and after it.
DataBefore == GetRec(root, ev'.ctx).data
DataAfter == GetRec(root', ev'.ctx).data

\* The call left the output variable and everything in the tree as it was,
\* and threw nothing.
LoadLeftAll(t) ==
    /\ ~ev'.m.exc
    /\ ub' = ub
    /\ root' = root
    /\ Last(frames'[t]).h = Top(t).h

\* C13. Load-phase guard: a load on a record whose sub-context and ancestors
\* are neither undoing nor redoing returns false and leaves the output and the
\* memento map unchanged, even if the key is there.
C13_LoadPhaseGuard ==
    [][\A t \in Threads :
          (ProbeCall(t, "Load") /\ ~InPhase(root, ev'.ctx))
              => (~ev'.ret /\ LoadLeftAll(t))]_vars

\* In its first execution a do-function has loaded, to no effect, a key it
\* had saved a value of the requested type under.
C13_Witness ==
    /\ ub = "none"
    /\ ev.op = "Load" /\ ~ev.ret /\ ~ev.lock
    /\ frames[1] # <<>>
    /\ frames[1][1].fn = "Do" /\ Top(1).pc = "probe"
    /\ ~InPhase(root, ev.ctx)
    /\ DataCount(GetRec(root, ev.ctx).data, ev.m.key) = 1
    /\ DataGet(GetRec(root, ev.ctx).data, ev.m.key).type = ev.m.type
    /\ Top(1).h = Uninit

\* A load during undo or redo of key K followed by "_Undo", K holding a value
\* of the requested type, returns true and sets the output to that value.
SuffixLoadFinds(t, K) ==
    (/\ ProbeCall(t, "Load") /\ InPhase(root, ev'.ctx)
     /\ ev'.m.key = K \o UndoSuffix
     /\ DataCount(DataBefore, K) = 1
     /\ DataGet(DataBefore, K).type = ev'.m.type)
        => /\ ev'.ret
           /\ ub' = ub
           /\ Last(frames'[t]).h = DataGet(DataBefore, K).val

\* C14. Key suffix: for every key K, "_Undo" inside K or not, a value saved
\* under K in the first execution is what a load of K + "_Undo" during undo or
\* redo of the same record returns, with true.
C14_KeySuffix ==
    [][\A t \in Threads : \A K \in ProbeKeys : SuffixLoadFinds(t, K)]_vars

\* What holds instead: C14 for the keys that do not contain "_Undo".
KeySuffixPlain ==
    [][\A t \in Threads : \A K \in ProbeKeys :
          Find(K, UndoSuffix) = 0 => SuffixLoadFinds(t, K)]_vars

\* C15. Type mismatch on load: a load during undo or redo of a key whose
\* stored value is not of the requested type returns false, raises nothing
\* and leaves the stored value and the output unchanged.
C15_TypeMismatch ==
    [][\A t \in Threads :
          (/\ ProbeCall(t, "Load") /\ InPhase(root, ev'.ctx)
           /\ DataCount(DataBefore, LoadId(ev'.m.key)) = 1
           /\ DataGet(DataBefore, LoadId(ev'.m.key)).type # ev'.m.type)
              => (~ev'.ret /\ LoadLeftAll(t))]_vars

\* A successful save of key K leaves exactly the saved value under K and the
\* other keys as they were; a refused one leaves the map as it was.
SaveOverwrites(t) ==
    ProbeCall(t, "Save")
        => IF ev'.ret
           THEN /\ DataCount(DataAfter, ev'.m.key) = 1
                /\ DataGet(DataAfter, ev'.m.key) = [type |-> ev'.m.type, val |-> ev'.m.val]
                /\ {e \in DataAfter : e[1] # ev'.m.key} = {e \in DataBefore : e[1] # ev'.m.key}
           ELSE root' = root

\* A load during undo or redo of key K as it was saved: the map is not
\* changed; with nothing saved under K it returns false and leaves the output,
\* with a value of the requested type under K it returns true and that value.
LoadLooksUp(t, K) ==
    (ProbeCall(t, "Load") /\ InPhase(root, ev'.ctx) /\ ev'.m.key = K)
        => /\ root' = root
           /\ DataCount(DataBefore, K) = 0
                 => (~ev'.ret /\ Last(frames'[t]).h = Top(t).h)
           /\ (/\ DataCount(DataBefore, K) = 1
               /\ DataGet(DataBefore, K).type = ev'.m.type)
                 => (ev'.ret /\ Last(frames'[t]).h = DataGet(DataBefore, K).val)

\* C16. Memento round trip: within one record a load during undo or redo
\* returns the value of the most recent successful save under that key (a
\* later save overwrites), loads never change the map, and a load of a key
\* never saved returns false and creates no entry.
C16_MementoRoundTrip ==
    [][\A t \in Threads :
          SaveOverwrites(t) /\ \A K \in ProbeKeys : LoadLooksUp(t, K)]_vars

\* What holds instead: C16 for the keys that do not contain "_Undo".
MementoRoundTripPlain ==
    [][\A t \in Threads :
          /\ SaveOverwrites(t)
          /\ \A K \in ProbeKeys : Find(K, UndoSuffix) = 0 => LoadLooksUp(t, K)]_vars

\* An undo-function has loaded the second of two values saved under one key.
RoundTripReached ==
    /\ ub = "none"
    /\ ev.op = "Load" /\ ev.ret /\ ev.m.key = KeyPlain
    /\ frames[1] # <<>> /\ Top(1).fn = "UndoFn" /\ Top(1).pc = "probe"
    /\ Top(1).h = 2
    /\ GetRec(root, ev.ctx).data = {<<KeyPlain, [type |-> "int", val |-> 2]>>}

\* Thread t takes the step of fn ("Undo" or "Redo") that follows the mutex.
EnterStep(t, fn) ==
    /\ AtPc(t, fn, "enter")
    /\ ub = "none"
    /\ GetCtx(root, Top(t).ctx).mutex = 0
    /\ frames'[t] # frames[t] \/ ub' # ub

\* The call of t returned false and nothing else happened: no closure ran (the
\* host's objects and every frame but the returning one are as they were), no
\* observer was called, and stacks, cursors, flags and the active context are
\* unchanged.
ReturnedFalseOnly(t) ==
    /\ frames' = Return(t, FALSE)
    /\ ~ev'.ret /\ ~ev'.eff
    /\ root' = root
    /\ obsLog' = obsLog
    /\ s_Context' = s_Context
    /\ objects' = objects
    /\ ub' = ub

\* C17. Boundary no-ops: undo with the cursor at 0 and redo with the cursor at
\* the last slot return false, run no closure, call no observer and leave the
\* stack, the cursor, both flags and the active context unchanged.
C17_BoundaryNoOps ==
    [][\A t \in Threads :
          /\ (EnterStep(t, "Undo") /\ GetCtx(root, Top(t).ctx).present = 0)
                => ReturnedFalseOnly(t)
          /\ (/\ EnterStep(t, "Redo")
              /\ GetCtx(root, Top(t).ctx).present = Size(GetCtx(root, Top(t).ctx)) - 1)
                => ReturnedFalseOnly(t)]_vars

\* Undo has returned false on a stack whose records are all undone.
C17_Witness ==
    /\ ub = "none" /\ AllIdle
    /\ cur.op = "Undo" /\ cur.done /\ ~cur.ret /\ ~cur.lock
    /\ ev.op = "Undo" /\ ~ev.eff
    /\ cur.ctx # NullCtx
    /\ CurCtx.present = 0 /\ Size(CurCtx) >= 3

\* Redo has returned false with the cursor on the newest of two records.
RedoAtTopReached ==
    /\ ub = "none" /\ AllIdle
    /\ cur.op = "Redo" /\ cur.done /\ ~cur.ret /\ ~cur.lock
    /\ ev.op = "Redo" /\ ~ev.eff
    /\ cur.ctx # NullCtx
    /\ CurCtx.present = 2 /\ Size(CurCtx) = 3

\* Thread t has an Undo or Redo call on context p that has acquired the mutex
\* and not yet returned.
InCall(t, p) ==
    \E i \in 1..Len(frames[t]) :
        /\ frames[t][i].fn \in {"Undo", "Redo"}
        /\ frames[t][i].pc = "exit"
        /\ frames[t][i].ctx = p

\* The contexts some call is made on.
CalledContexts ==
    UNION {{frames[t][i].ctx :
               i \in {j \in 1..Len(frames[t]) : frames[t][j].fn \in {"Undo", "Redo"}}} :
           t \in Threads}

\* No two threads are inside Undo or Redo of one context.
OneCallPerContext ==
    \A p \in CalledContexts : \A t, u \in Threads :
        (InCall(t, p) /\ InCall(u, p)) => t = u

\* Thread t invokes a closure of a record of the context its call is on.
InvokeStep(t) ==
    /\ \E fn \in {"Undo", "Redo"} : AtPc(t, fn, "enter")
    /\ Len(frames'[t]) = Len(frames[t]) + 1

\* C18. Mutual exclusion: on one context at most one Undo or Redo call is
\* between acquiring the mutex and returning, in every interleaving of calls
\* from several threads; a call's closure starts only after the cursor update
\* and the observer call of the call before it on that context.
C18_MutualExclusion ==
    /\ []OneCallPerContext
    /\ [][\A t \in Threads :
             InvokeStep(t) =>
                 /\ \A u \in Threads : ~InCall(u, Top(t).ctx)
                 /\ ~GetCtx(root, Top(t).ctx).isUndoing
                 /\ ~GetCtx(root, Top(t).ctx).isRedoing]_vars

\* Thread 1 is inside Undo of the root context, its closure not yet returned,
\* while thread 2 has called Redo on the root context and waits for the mutex.
C18_Witness ==
    /\ ub = "none"
    /\ InCall(1, <<>>)
    /\ frames[1][1].fn = "Undo" /\ Len(frames[1]) = 2
    /\ AtPc(2, "Redo", "enter")
    /\ Top(2).ctx = <<>>
    /\ root.mutex = 1
    /\ ~RedoBoundary(root)

\* The latest top-level call was an Undo or Redo that ran a closure of a
\* probing record and has returned.
RanRecord ==
    /\ cur.op \in {"Undo", "Redo"} /\ cur.done /\ ~cur.lock
    /\ ub = "none" /\ AllIdle /\ cur.ctx # NullCtx
    /\ ~IsNull(cur.rec)
    /\ cur.rec.params.k = "Probe"

\* C19. Result propagation: an Undo or Redo call that runs a record returns
\* exactly the boolean the record's closure returned; the cursor moves by one
\* and the observer fires whether that boolean is true or false.
C19_ResultPropagation ==
    RanRecord =>
        /\ cur.ret = (cur.rec.params.v = 1)
        /\ CurCtx.present = (IF cur.op = "Undo" THEN cur.present - 1 ELSE cur.present + 1)
        /\ RootObs = << <<cur.ctx, CurCtx.present>> >>

\* Undo has run an undo closure that returned false.
C19_Witness ==
    /\ RanRecord
    /\ cur.op = "Undo"
    /\ cur.rec.params.v = 0
    /\ ~cur.ret
    /\ CurCtx.present = 0 /\ cur.present = 1

\* Redo has run a do closure that returned false.
RedoFalseReached ==
    /\ RanRecord
    /\ cur.op = "Redo"
    /\ cur.rec.params.v = 0
    /\ ~cur.ret
    /\ CurCtx.present = 1 /\ cur.present = 0

\* C20. Clear: with the gate unlocked, after Clear the stack is exactly the
\* sentinel, the cursor is 0 and the observer has been called exactly once,
\* with 0.
C20_Clear ==
    (cur.op = "Clear" /\ cur.done /\ ~cur.lock /\ ub = "none" /\ AllIdle /\ cur.ctx # NullCtx)
        => /\ CurCtx.stack = <<NullHistory>>
           /\ CurCtx.present = 0
           /\ RootObs = << <<cur.ctx, 0>> >>

\* Clear has emptied a stack of two records with the cursor on the first.
C20_Witness ==
    /\ cur.op = "Clear" /\ cur.done /\ ~cur.lock /\ ub = "none" /\ AllIdle
    /\ cur.ctx = <<>>
    /\ cur.size = 3 /\ cur.present = 1
    /\ root.stack = <<NullHistory>>
    /\ obsLog = << <<cur.ctx, 0>> >>

\* The vector index whose record the step of thread t past the boundary test
\* of fn executes: m_HistoryStack[m_PresentHistoryIdx]->Undo() or
\* m_HistoryStack[++m_PresentHistoryIdx]->Redo().
ExecutedIndex(t, fn) ==
    IF fn = "Undo" THEN GetCtx(root, Top(t).ctx).present
    ELSE GetCtx(root, Top(t).ctx).present + 1

\* Thread t takes the step of fn that executes a record.
ExecuteStep(t, fn) ==
    /\ EnterStep(t, fn)
    /\ IF fn = "Undo" THEN GetCtx(root, Top(t).ctx).present # 0
       ELSE GetCtx(root, Top(t).ctx).present # Size(GetCtx(root, Top(t).ctx)) - 1

\* The record executed is one of indices 1..|stack|-1, and the step reads no
\* null slot and nothing outside the vector.
ExecutesARecord(t, fn) ==
    ExecuteStep(t, fn) =>
        /\ ExecutedIndex(t, fn) \in 1..(Size(GetCtx(root, Top(t).ctx)) - 1)
        /\ ub' = ub

\* C21. Sentinel never executed: after any sequence of push, abortPush, undo,
\* redo and clear, undo and redo only invoke closures of records at indices
\* 1..|stack|-1; index 0 is never executed, no index outside the stack is
\* accessed.
C21_SentinelNeverExecuted ==
    [][\A t \in Threads : \A fn \in {"Undo", "Redo"} : ExecutesARecord(t, fn)]_vars

\* What holds instead: C21 as long as no AbortPush was called with no push in
\* progress.
SentinelNeverExecutedUncut ==
    [][\A t \in Threads : \A fn \in {"Undo", "Redo"} :
          snap.phase # "B" => ExecutesARecord(t, fn)]_vars

\* C22. Sentinel is a record: with the gate unlocked, Present() on a context
\* whose cursor is 0 returns a non-null record (the sentinel), so a push or
\* pop controller constructed while the active context's cursor is 0 can
\* descend into its sub-context.
C22_SentinelIsRecord ==
    (/\ ~s_Lock /\ s_Context # NullCtx /\ ub = "none"
     /\ GetCtx(root, s_Context).present = 0)
        => /\ ~Present(root, s_Lock, s_Context).null
           /\ ~Descend(root, s_Lock, s_Context).ub

\* The part of C22 on the controllers, on the steps that construct one: with
\* the gate unlocked and the active context's cursor at 0 a pop controller,
\* and a push controller outside Undo, switches the active context to the
\* sub-context of slot 0.
ScopeAtZeroDescends ==
    [][\A t \in Threads :
          (/\ AtPc(t, "Do", "ctor") \/ AtPc(t, "UndoFn", "ctor")
           /\ ~s_Lock /\ s_Context # NullCtx
           /\ GetCtx(root, s_Context).present = 0
           /\ Top(t).fn = "Do" => ~IsUndoing(root, s_Lock, s_Context)
           /\ frames'[t] # frames[t] \/ ub' # ub)
              => (ub' = ub /\ s_Context' = Append(s_Context, 0))]_vars

\* A top-level Redo (resp. Undo) of thread 1 has invoked a closure that has
\* not yet returned.
InClosure(op) ==
    /\ ub = "none"
    /\ cur.op = op /\ ~cur.done
    /\ Len(frames[1]) >= 2
    /\ frames[1][1].fn = op /\ frames[1][1].pc = "exit"

\* The closure that runs is that of stack[pre-call present + 1].
RedoRunsNext ==
    InClosure("Redo") =>
        /\ cur.rec.id = At(CurCtx, cur.present + 1).id
        /\ frames[1][2].fn = "Do"
        /\ frames[1][2].arg = At(CurCtx, cur.present + 1).params

\* Throughout the do-closure the cursor has its pre-call value ...
RedoCursorStays == InClosure("Redo") => CurCtx.present = cur.present
\* ... or its pre-call value plus one.
RedoCursorAdvanced == InClosure("Redo") => CurCtx.present = cur.present + 1

\* C23 as written. Redo ordering: redo on context C increments C.present only
\* after the record's do-closure has returned; throughout the do-closure
\* C.present still has its pre-call value and the closure that runs is that of
\* stack[pre-call present + 1].
C23_RedoIncrementsAfter ==
    /\ []RedoCursorStays
    /\ []RedoRunsNext

\* C23 as the code has it. Redo on context C increments C.present before it
\* invokes the record's do-closure: throughout the do-closure C.present is the
\* pre-call value plus one, the closure that runs is that of
\* stack[pre-call present + 1], and the return of the closure moves the
\* cursor no further.
C23_RedoIncrementsBefore ==
    /\ []RedoCursorAdvanced
    /\ []RedoRunsNext
    /\ [][\A t \in Threads :
             AtPc(t, "Redo", "exit") /\ frames'[t] # frames[t]
                 => GetCtx(root', Top(t).ctx).present = GetCtx(root, Top(t).ctx).present]_vars

\* Redo of the second of three records is inside the body of its do-function.
C23_Witness ==
    /\ InClosure("Redo")
    /\ cur.present = 1 /\ cur.size = 4
    /\ CurCtx.present = 2
    /\ Len(frames[1]) = 2 /\ frames[1][2].pc = "body"

\* Throughout the closure invoked by Undo (resp. Redo) on context C the flag
\* isUndoing (resp. isRedoing) of C is set, the other is not, and the cursor of
\* C is the index of the record whose closure is running.
MidBodyView(op) ==
    InClosure(op) =>
        /\ CurCtx.isUndoing = (op = "Undo")
        /\ CurCtx.isRedoing = (op = "Redo")
        /\ InRange(CurCtx, CurCtx.present)
        /\ At(CurCtx, CurCtx.present).id = cur.rec.id
        /\ frames[1][2].arg = At(CurCtx, CurCtx.present).params

MidBodyUndo == MidBodyView("Undo")
MidBodyRedo == MidBodyView("Redo")

\* The controller constructed at the start of the body of that closure
\* switches the active context to the sub-context of that record.
ScopeEntersRecord ==
    \A op \in {"Undo", "Redo"} :
        (/\ InClosure(op)
         /\ Len(frames[1]) = 2
         /\ frames[1][2].pc = "ctor"
         /\ frames'[1] # frames[1] \/ ub' # ub)
            => /\ ub' = ub
               /\ s_Context' = Append(cur.ctx, CurCtx.present)
               /\ GetRec(root, s_Context').id = cur.rec.id

ScopeAlwaysEntersRecord == [][ScopeEntersRecord]_vars

\* C24. Mid-body view: throughout the closure invoked by undo (resp. redo) on
\* context C, C.isUndoing (resp. C.isRedoing) is true and C.present is the
\* index of the record whose closure is running, so a pop (resp. push)
\* controller constructed at the start of that body switches the active
\* context to the sub-context of exactly that record.
C24_MidBodyView ==
    /\ []MidBodyUndo
    /\ []MidBodyRedo
    /\ ScopeAlwaysEntersRecord

\* Undo of the second of two records is in the body of its undo-function, the
\* active context being that record's sub-context.
C24_Witness ==
    /\ InClosure("Undo")
    /\ cur.ctx = <<>> /\ cur.present = 2
    /\ root.isUndoing /\ root.present = 2
    /\ Len(frames[1]) = 2 /\ frames[1][2].fn = "UndoFn" /\ frames[1][2].pc = "body"
    /\ s_Context = <<2>>

\* Redo of the second of two records is in the body of its do-function, the
\* active context being that record's sub-context.
MidRedoReached ==
    /\ InClosure("Redo")
    /\ cur.ctx = <<>> /\ cur.present = 1
    /\ root.isRedoing /\ root.present = 2
    /\ Len(frames[1]) = 2 /\ frames[1][2].fn = "Do" /\ frames[1][2].pc = "body"
    /\ s_Context = <<2>>

\* Thread t takes the step that releases the controller of its top frame:
\* the destructor at the closing brace of a do- or undo-function, or the early
\* destructor call of HISTORY_ABORT_PUSH.
ReleaseStep(t) ==
    /\ \/ AtPc(t, "Do", "dtor")
       \/ AtPc(t, "Do", "release")
       \/ AtPc(t, "UndoFn", "dtor")
    /\ frames'[t] # frames[t] \/ ub' # ub

\* After the release the active context is what it was (the frame's was)
\* before the controller was constructed.
Balanced(t) == ReleaseStep(t) => (ub' = ub /\ s_Context' = Top(t).was)

\* C25. Scope balance: for every push and pop controller the active context
\* right after its release equals the active context right before its
\* acquisition, on every path: normal execution, inside undo, inside redo,
\* with the abort protocol, and when the gate is locked or unlocked between
\* acquisition and release.
C25_ScopeBalance == [][\A t \in Threads : Balanced(t)]_vars

\* What holds instead: C25 for the controllers constructed and released in a
\* top-level call throughout which the gate stayed unlocked.
ScopeBalanceSteadyGate == [][\A t \in Threads : ~cur.lock => Balanced(t)]_vars

\* The records of context c and of every context below it: per slot the
\* record's id, captured arguments and mementos and the records of its
\* sub-context, cursors, flags and mutexes left out.
RECURSIVE Records(_)
Records(c) ==
    [i \in 1..Len(c.stack) |->
        [id |-> c.stack[i].id, params |-> c.stack[i].params, data |-> c.stack[i].data,
         sub |-> Records(c.stack[i].sub)]]

\* A top-level Undo or Redo call is between its start and its return.
Replaying == cur.op \in {"Undo", "Redo"} /\ ~cur.done /\ cur.ctx # NullCtx

\* C26. No re-recording during replay: from the start to the end of any undo
\* or redo call on a context, the record sequence of that context and of every
\* descendant context is unchanged, whatever do-functions (push and push
\* controller, save, abort protocol) the body calls; only cursors and the
\* active context move.
C26_NoReRecording ==
    [][Replaying =>
          /\ Records(GetCtx(root', cur.ctx)) = Records(GetCtx(root, cur.ctx))
          /\ nextId' = nextId]_vars

\* During Redo of a merge the nested do-function has pushed (to no effect) and
\* run the abort protocol (to no effect).
C26_Witness ==
    /\ InClosure("Redo")
    /\ cur.rec.params = MergeSh(<<AddSh(1), DoomedSh>>)
    /\ Len(frames[1]) = 3
    /\ frames[1][3].arg = DoomedSh /\ frames[1][3].pc = "dtor"
    /\ ev.op = "AbortPush" /\ ~ev.eff
    /\ Size(root) = 2
    /\ Size(root.stack[2].sub) = 2

\* During Undo the undo-function of RemoveObject has called AddObject, whose
\* push created nothing.
ReplayPushReached ==
    /\ InClosure("Undo")
    /\ cur.rec.params = RemoveSh
    /\ Len(frames[1]) = 3
    /\ frames[1][3].arg.k = "Add" /\ frames[1][3].pc = "ctor"
    /\ ev.op = "Push" /\ ~ev.eff

\* Thread t takes the step that releases a pop controller, gate unlocked,
\* from an active context that has a context above it.
PopReleaseStep(t) ==
    /\ AtPc(t, "UndoFn", "dtor")
    /\ ~s_Lock
    /\ s_Context # NullCtx /\ s_Context # <<>>
    /\ frames'[t] # frames[t] \/ ub' # ub

\* The cursor the release leaves in the context it ascends to, whose cursor
\* was n: one less when that context has a parent and n > 1, else n.
Retreat(up, n) == IF up # <<>> /\ n > 1 THEN n - 1 ELSE n

\* C27. Pop controller retreat bound: a release decrements the cursor of the
\* context it ascends to only when that context has a parent and its cursor is
\* greater than 1; it never changes a root context's cursor and never moves a
\* sub-context's cursor below 1.
C27_RetreatBound ==
    [][\A t \in Threads :
          PopReleaseStep(t) =>
              LET up == Front(s_Context)
                  c == GetCtx(root, up)
              IN /\ ub' = ub
                 /\ s_Context' = up
                 /\ root' = SetCtx(root, up, [c EXCEPT !.present = Retreat(up, c.present)])
                 /\ up = <<>> => root'.present = root.present
                 /\ (up # <<>> /\ c.present >= 1) => GetCtx(root', up).present >= 1]_vars

\* Undo of a merge of two: the release of the second nested undo-function has
\* moved the sub-context's cursor from 2 to 1, the first is still to run.
C27_Witness ==
    /\ InClosure("Undo")
    /\ ev.op = "PopDtor" /\ ev.eff
    /\ Len(frames[1]) = 2
    /\ frames[1][2].fn = "UndoFn" /\ frames[1][2].pc = "body" /\ frames[1][2].i = 1
    /\ Len(frames[1][2].arg.ch) = 2
    /\ s_Context = <<root.present>>
    /\ Size(GetCtx(root, s_Context)) = 3
    /\ GetCtx(root, s_Context).present = 1

\* The release of a top-level undo-function has left the root's cursor at 2,
\* for Undo to decrement.
RootRetreatReached ==
    /\ ub = "none"
    /\ cur.op = "Undo" /\ ~cur.done
    /\ ev.op = "PopDtor" /\ ev.eff
    /\ Len(frames[1]) = 1 /\ frames[1][1].pc = "exit"
    /\ s_Context = <<>>
    /\ root.present = 2

\* The ids of the records of context c and of every context below it, one
\* entry per record.
RECURSIVE AllIds(_)
AllIds(c) ==
    IF c.stack = <<>> THEN <<>>
    ELSE LET h == Last(c.stack)
             rest == AllIds([c EXCEPT !.stack = Front(@)])
         IN IF IsNull(h) THEN rest ELSE rest \o <<h.id>> \o AllIds(h.sub)

\* In context c and in every context below it the ids of the records grow
\* strictly with the index.
RECURSIVE IdsIncrease(_)
IdsIncrease(c) ==
    /\ \A i, j \in 1..Len(c.stack) :
          (i < j /\ ~IsNull(c.stack[i]) /\ ~IsNull(c.stack[j]))
              => c.stack[i].id < c.stack[j].id
    /\ \A i \in 1..Len(c.stack) : ~IsNull(c.stack[i]) => IdsIncrease(c.stack[i].sub)

\* C28. Record ids: every record created by push gets an id strictly greater
\* than the id of every record created before it, so in every reachable state
\* the ids of each context are strictly increasing with the index and no two
\* live records in the tree share an id (below the wrap-around of the 32-bit
\* counter).
C28_RecordIds ==
    /\ IdsIncrease(root)
    /\ \A i, j \in 1..Len(AllIds(root)) : i # j => AllIds(root)[i] # AllIds(root)[j]
    /\ \A i \in 1..Len(AllIds(root)) : AllIds(root)[i] \in 1..nextId

\* Five live records, three in the root context, two of them nested in the
\* third.
C28_Witness ==
    /\ ub = "none" /\ AllIdle
    /\ Len(AllIds(root)) = 5
    /\ Size(root) = 4
    /\ Size(root.stack[4].sub) = 3
    /\ nextId = 5

\* The paths of context c and of every context below it.
RECURSIVE AllPaths(_)
AllPaths(c) ==
    {<<>>} \cup
    UNION {{<<i - 1>> \o q : q \in AllPaths(c.stack[i].sub)} :
           i \in {j \in 1..Len(c.stack) : ~IsNull(c.stack[j])}}

\* Context p or one of the contexts above it has its isUndoing (resp.
\* isRedoing) flag set.
FlagOnChain(p, undo) ==
    \E k \in 0..Len(p) :
        IF undo THEN GetCtx(root, SubSeq(p, 1, k)).isUndoing
        ELSE GetCtx(root, SubSeq(p, 1, k)).isRedoing

PhaseQueryRight(p) ==
    /\ IsUndoing(root, s_Lock, p) = FlagOnChain(p, TRUE)
    /\ IsRedoing(root, s_Lock, p) = FlagOnChain(p, FALSE)

\* C29. Ancestor-aware phase query: in every reachable state, gate locked or
\* not, IsUndoing() on a context returns true if and only if that context or
\* one of its ancestors has its isUndoing flag set, and likewise IsRedoing().
C29_PhaseQuery == \A p \in AllPaths(root) : PhaseQueryRight(p)

\* What holds instead: C29 while the gate is unlocked.
PhaseQueryUnlocked == ~s_Lock => \A p \in AllPaths(root) : PhaseQueryRight(p)

\* With the gate unlocked a query on a sub-context has answered true for the
\* flag of the root context.
PhaseQueryReached ==
    /\ ~s_Lock /\ ub = "none"
    /\ root.isUndoing
    /\ s_Context # NullCtx /\ Len(s_Context) = 1
    /\ ~GetCtx(root, s_Context).isUndoing
    /\ IsUndoing(root, s_Lock, s_Context)

\* ------------------------------------------------------------------ C30
\* A call of fn on the context at path p is in progress: some call stack
\* holds its frame, the closure running or being left by an exception.
Running(p, fn) ==
    \E t \in DOMAIN frames : \E i \in 1..Len(frames[t]) :
        /\ frames[t][i].fn = fn
        /\ frames[t][i].ctx = p
        /\ frames[t][i].pc \in {"exit", "throw"}

PhaseMachine(p) ==
    LET c == GetCtx(root, p)
    IN /\ c.isUndoing = Running(p, "Undo")
       /\ c.isRedoing = Running(p, "Redo")
       /\ ~(c.isUndoing /\ c.isRedoing)

\* C30. On every context, isUndoing is true exactly while a call of undo on
\* it is between the start of its closure and its return, isRedoing likewise
\* for redo; with no call in progress both are false, and the two are never
\* true together.
C30_PhaseMachine ==
    ub = "none" => \A p \in AllPaths(root) : PhaseMachine(p)

\* A context keeps isUndoing set with every call stack empty.
StuckUndoing ==
    /\ ub = "none"
    /\ \A t \in DOMAIN frames : frames[t] = <<>>
    /\ \E p \in AllPaths(root) : GetCtx(root, p).isUndoing

\* ------------------------------------------------------------------ C31
\* Thread t has called Undo or Redo and the call has not got past the mutex.
AwaitsMutex(t) ==
    /\ frames[t] # <<>>
    /\ Top(t).fn \in {"Undo", "Redo"}
    /\ Top(t).pc \in {"enter", "blocked"}

\* The call of t that has not got past the mutex was made on a context on
\* which a call of t is in progress: from its record closure or its observer.
Reentered(t) ==
    /\ AwaitsMutex(t)
    /\ \E i \in 1..(Len(frames[t]) - 1) :
          /\ frames[t][i].fn \in {"Undo", "Redo"}
          /\ frames[t][i].ctx = Top(t).ctx

\* C31. An undo or redo call made on a context while another undo or redo on
\* that context is in progress, re-entrantly from the record closure or the
\* observer included, is serialized behind it and eventually returns: no
\* call waits for the mutex forever.
C31_ReentrantCallsComplete ==
    \A t \in Threads : AwaitsMutex(t) ~> (~AwaitsMutex(t) \/ ub # "none")

\* The calls made with no call of the same thread in progress on the context
\* all get past the mutex.
FirstCallsComplete ==
    \A t \in Threads :
        (AwaitsMutex(t) /\ ~Reentered(t)) ~> (~AwaitsMutex(t) \/ ub # "none")

\* A re-entrant call is blocked on the mutex its own thread holds.
SelfBlocked ==
    \E t \in Threads : Reentered(t) /\ Top(t).pc = "blocked"

\* ... from the observer, and from the record closure.
SelfBlockedInObserver ==
    \E t \in Threads : /\ Reentered(t)
                        /\ Top(t).pc = "blocked"
                        /\ frames[t][Len(frames[t]) - 1].pc = "notify"

SelfBlockedInClosure ==
    \E t \in Threads : /\ Reentered(t)
                        /\ Top(t).pc = "blocked"
                        /\ frames[t][Len(frames[t]) - 1].fn = "Do"

====
